---- MODULE Spec2Model ----
(***************************************************************************)
(* Model of the trading-journal application: the trade analytics           *)
(* aggregation calculateUserAnalytics and the page around it               *)
(* (UserAnalyticsPage.tsx), the chat (EnhancedChatInterface.tsx), the      *)
(* screenshot upload (ImageUploadZone.tsx), the Gemini client              *)
(* (geminiService.ts), the trade form (EnhancedTradeForm.tsx) and the      *)
(* market overview (MarketOverviewTab.tsx).  Each component has a          *)
(* specification of its own over its own variable.                         *)
(*                                                                         *)
(* Numbers.  The inputs are integer-valued, so every sum the code forms is *)
(* an integer and is kept as a TLA+ integer.  A quotient is kept as an     *)
(* exact fraction [n, d] in lowest terms with d > 0; d = 0 stands for the  *)
(* non-finite results of a JavaScript division: [1,0] is Infinity, [-1,0]  *)
(* is -Infinity and [0,0] is NaN.  On integer-valued inputs of this size   *)
(* the sums of doubles are exact, and a quotient differs from the fraction *)
(* by its rounding only.  A square root is kept as its radicand.  The mean *)
(* of roi values that are not integers is rounded as a double rounds it:   *)
(* see the section on IEEE 754 doubles and SpecDouble.                     *)
(***************************************************************************)
EXTENDS Integers, Sequences, FiniteSets, TLC

VARIABLES sessions, trades, pc, analytics, calls, user, allTrades, loading, loads,
          chat, zone, gemini, form, market

vars == <<sessions, trades, pc, analytics, calls, user, allTrades, loading, loads,
          chat, zone, gemini, form, market>>

\* the state of the components beside the analytics page
widgetVars == <<chat, zone, gemini, form, market>>

\* the state of the analytics page beside sessions and analytics
pageVars == <<user, allTrades, loading, loads>>

----------------------------------------------------------------------------
(* Bounds of the checked input space. *)

MaxLen == 3

PnLVals == {-2, 0, 10}

RoiVals == {-3, 2}

SideVals == {"Long", "Short", "Hedge"}

----------------------------------------------------------------------------
(* Arithmetic on JavaScript numbers. *)

AbsInt(x) == IF x < 0 THEN -x ELSE x

SignInt(x) == IF x > 0 THEN 1 ELSE IF x < 0 THEN -1 ELSE 0

MaxInt(a, b) == IF a >= b THEN a ELSE b

RECURSIVE GCD(_, _)
GCD(a, b) == IF b = 0 THEN a ELSE GCD(b, a % b)

NaN == [n |-> 0, d |-> 0]

Infinity(s) == [n |-> s, d |-> 0]

Rat(n, d) == LET g == GCD(AbsInt(n), d) IN [n |-> n \div g, d |-> d \div g]

Num(i) == [n |-> i, d |-> 1]

IsFinite(x) == x.d # 0

IsNaN(x) == x.d = 0 /\ x.n = 0

\* a / b
Div(a, b) ==
  IF IsNaN(a) \/ IsNaN(b) THEN NaN
  ELSE IF ~IsFinite(a) THEN (IF IsFinite(b) THEN Infinity(a.n * (IF b.n < 0 THEN -1 ELSE 1)) ELSE NaN)
  ELSE IF ~IsFinite(b) THEN Num(0)
  ELSE IF b.n = 0 THEN (IF a.n = 0 THEN NaN ELSE Infinity(SignInt(a.n)))
  ELSE Rat(a.n * b.d * SignInt(b.n), a.d * AbsInt(b.n))

\* a * b
Mul(a, b) ==
  IF IsNaN(a) \/ IsNaN(b) THEN NaN
  ELSE IF IsFinite(a) /\ IsFinite(b) THEN Rat(a.n * b.n, a.d * b.d)
  ELSE IF a.n = 0 \/ b.n = 0 THEN NaN
  ELSE Infinity(SignInt(a.n) * SignInt(b.n))

\* a - b, on finite numbers
Sub(a, b) ==
  IF IsFinite(a) /\ IsFinite(b) THEN Rat(a.n * b.d - b.n * a.d, a.d * b.d) ELSE NaN

\* a + b, on finite numbers
Add(a, b) ==
  IF IsFinite(a) /\ IsFinite(b) THEN Rat(a.n * b.d + b.n * a.d, a.d * b.d) ELSE NaN

\* a > b; every comparison with NaN is false
Gt(a, b) ==
  IF IsNaN(a) \/ IsNaN(b) THEN FALSE
  ELSE IF IsFinite(a) /\ IsFinite(b) THEN a.n * b.d > b.n * a.d
  ELSE IF ~IsFinite(a) THEN a.n > 0 /\ a # b
  ELSE b.n < 0

\* Math.sqrt(x), kept as the radicand
Sqrt(x) == [rad |-> x]

\* s > 0 for a square root s
SqrtGtZero(s) == Gt(s.rad, Num(0))

\* a / s for a square root s: the number sgn * sqrt(sq)
DivBySqrt(a, s) == [sgn |-> SignInt(a.n), sq |-> Div(Mul(a, a), s.rad)]

\* the literal 0 where a square-root quotient is expected
SurdZero == [sgn |-> 0, sq |-> Num(0)]

----------------------------------------------------------------------------
(* Array helpers. *)

\* s.reduce((acc, x) => f(acc, x), init)
Reduce(f(_, _), s, init) ==
  LET RECURSIVE go(_)
      go(i) == IF i = 0 THEN init ELSE f(go(i - 1), s[i])
  IN go(Len(s))

\* s.map(x => f(x))
Map(f(_), s) == [i \in 1..Len(s) |-> f(s[i])]

\* Math.max(...s): -Infinity for no argument
MathMax(s) == Reduce(LAMBDA m, x : IF Gt(x, m) THEN x ELSE m, s, Infinity(-1))

----------------------------------------------------------------------------
(* calculateUserAnalytics, fragment by fragment. *)

Null == [null |-> TRUE]

\* useAuth() without a signed-in user
NoUser == "none"

\* the chat interface after its useState initialisers, with the props it is given
ChatInitial(onSessionSwitch) ==
  [messages |-> <<>>,
   inputMessage |-> "",
   isLoading |-> FALSE,
   showImageUpload |-> FALSE,
   onSessionSwitch |-> onSessionSwitch,
   requests |-> <<>>]

\* the image upload zone after its useState initialisers
ZoneInitial ==
  [isProcessing |-> FALSE,
   preview |-> Null,
   fileName |-> "",
   extractionStatus |-> "idle",
   runs |-> <<>>]

\* the other components in a specification that is not about them
WidgetsIdle ==
  /\ chat = ChatInitial(FALSE)
  /\ zone = ZoneInitial
  /\ gemini = Null
  /\ form = Null
  /\ market = Null

\* the page state of a specification that is not about the page's loading
PageIdle ==
  /\ user = NoUser
  /\ allTrades = <<>>
  /\ loading = TRUE
  /\ loads = <<>>

Sentinel == 999

HighDrawdown == 20

ModerateDrawdown == 10

\* sessions.reduce((sum, s) => sum + s.current_capital, 0)
ActiveCapital(ss) == Reduce(LAMBDA sum, s : sum + s.current_capital, ss, 0)

\* variant: the empty result reports no capital
EmptyAnalyticsNoCapital(ss) ==
  [sharpeRatio |-> SurdZero,
   maxDrawdown |-> Num(0),
   maxDrawdownAmount |-> 0,
   profitFactor |-> Num(0),
   totalTrades |-> 0,
   winRate |-> Num(0),
   totalPnL |-> 0,
   longTrades |-> 0,
   shortTrades |-> 0,
   avgRiskPerTrade |-> Num(0),
   maxRisk |-> Num(0),
   bestStreak |-> 0,
   worstStreak |-> 0,
   riskLevel |-> "Low",
   activeCapital |-> 0]

\* the result returned for trades.length === 0
EmptyAnalytics(ss) ==
  [sharpeRatio |-> SurdZero,
   maxDrawdown |-> Num(0),
   maxDrawdownAmount |-> 0,
   profitFactor |-> Num(0),
   totalTrades |-> 0,
   winRate |-> Num(0),
   totalPnL |-> 0,
   longTrades |-> 0,
   shortTrades |-> 0,
   avgRiskPerTrade |-> Num(0),
   maxRisk |-> Num(0),
   bestStreak |-> 0,
   worstStreak |-> 0,
   riskLevel |-> "Low",
   activeCapital |-> ActiveCapital(ss)]

\* variant: the absolute values are summed
SumAbsPnL(ts) == Reduce(LAMBDA sum, trade : sum + AbsInt(trade.profit_loss), ts, 0)

\* trades.reduce((sum, trade) => sum + trade.profit_loss, 0)
SumPnL(ts) == Reduce(LAMBDA sum, trade : sum + trade.profit_loss, ts, 0)

\* variant: a trade with profit_loss = 0 is taken for a winning trade
IsWinningOrFlat(trade) == trade.profit_loss >= 0

IsWinning(trade) == trade.profit_loss > 0

IsLosing(trade) == trade.profit_loss < 0

WinningTrades(ts) == SelectSeq(ts, IsWinning)

LosingTrades(ts) == SelectSeq(ts, IsLosing)

TotalProfit(ts) == SumPnL(WinningTrades(ts))

\* variant: the Math.abs around the sum of the losing trades is missing
TotalLossSigned(ts) == SumPnL(LosingTrades(ts))

TotalLoss(ts) == AbsInt(SumPnL(LosingTrades(ts)))

\* variant: no sentinel when there is no loss
ProfitFactorNoSentinel(totalProfit, totalLoss) ==
  IF totalLoss > 0 THEN Div(Num(totalProfit), Num(totalLoss)) ELSE Num(0)

\* totalLoss > 0 ? totalProfit / totalLoss : totalProfit > 0 ? 999 : 0
ProfitFactor(totalProfit, totalLoss) ==
  IF totalLoss > 0 THEN Div(Num(totalProfit), Num(totalLoss))
  ELSE IF totalProfit > 0 THEN Num(Sentinel)
  ELSE Num(0)

\* (winningTrades.length / trades.length) * 100
WinRate(ts) == Mul(Div(Num(Len(WinningTrades(ts))), Num(Len(ts))), Num(100))

DrawdownInit == [runningPnL |-> 0, peak |-> 0, maxDrawdown |-> Num(0), maxDrawdownAmount |-> 0]

\* variant: the percentage is recomputed at every step, not only at a deeper drawdown
DrawdownStepAlwaysPercent(st, trade) ==
  LET runningPnL == st.runningPnL + trade.profit_loss
      peak == IF runningPnL > st.peak THEN runningPnL ELSE st.peak
      drawdown == peak - runningPnL
  IN [runningPnL |-> runningPnL,
      peak |-> peak,
      maxDrawdownAmount |-> MaxInt(st.maxDrawdownAmount, drawdown),
      maxDrawdown |-> IF peak > 0
                      THEN Mul(Div(Num(drawdown), Num(peak)), Num(100))
                      ELSE Num(0)]

\* variant: the percentage is not guarded by peak > 0
DrawdownStepUnguarded(st, trade) ==
  LET runningPnL == st.runningPnL + trade.profit_loss
      peak == IF runningPnL > st.peak THEN runningPnL ELSE st.peak
      drawdown == peak - runningPnL
  IN IF drawdown > st.maxDrawdownAmount
     THEN [runningPnL |-> runningPnL,
           peak |-> peak,
           maxDrawdownAmount |-> drawdown,
           maxDrawdown |-> Mul(Div(Num(drawdown), Num(peak)), Num(100))]
     ELSE [st EXCEPT !.runningPnL = runningPnL, !.peak = peak]

\* one iteration of the drawdown forEach
DrawdownStep(st, trade) ==
  LET runningPnL == st.runningPnL + trade.profit_loss
      peak == IF runningPnL > st.peak THEN runningPnL ELSE st.peak
      drawdown == peak - runningPnL
  IN IF drawdown > st.maxDrawdownAmount
     THEN [runningPnL |-> runningPnL,
           peak |-> peak,
           maxDrawdownAmount |-> drawdown,
           maxDrawdown |-> IF peak > 0
                           THEN Mul(Div(Num(drawdown), Num(peak)), Num(100))
                           ELSE Num(0)]
     ELSE [st EXCEPT !.runningPnL = runningPnL, !.peak = peak]

\* variant: the walk runs over the trades sorted by profit_loss
DrawdownOfSorted(ts) ==
  LET RECURSIVE sorted(_)
      sorted(xs) ==
        IF Len(xs) <= 1 THEN xs
        ELSE LET rest == sorted(Tail(xs))
                 k == Cardinality({i \in 1..Len(rest) : rest[i].profit_loss < Head(xs).profit_loss})
             IN SubSeq(rest, 1, k) \o <<Head(xs)>> \o SubSeq(rest, k + 1, Len(rest))
  IN Reduce(DrawdownStep, sorted(ts), DrawdownInit)

Drawdown(ts) == Reduce(DrawdownStep, ts, DrawdownInit)

Roi(trade) == Num(trade.roi)

\* returns.reduce((sum, r) => sum + r, 0) / returns.length
AvgReturn(returns) ==
  Div(Reduce(LAMBDA sum, r : Add(sum, r), returns, Num(0)), Num(Len(returns)))

\* variant: the sample variance, divided by returns.length - 1
VarianceSample(returns) ==
  LET avgReturn == AvgReturn(returns)
  IN Div(Reduce(LAMBDA sum, r : Add(sum, Mul(Sub(r, avgReturn), Sub(r, avgReturn))),
                returns, Num(0)),
         Num(Len(returns) - 1))

\* returns.reduce((sum, r) => sum + Math.pow(r - avgReturn, 2), 0) / returns.length
Variance(returns) ==
  LET avgReturn == AvgReturn(returns)
  IN Div(Reduce(LAMBDA sum, r : Add(sum, Mul(Sub(r, avgReturn), Sub(r, avgReturn))),
                returns, Num(0)),
         Num(Len(returns)))

StdDev(returns) == Sqrt(Variance(returns))

\* variant: the division is not guarded by stdDev > 0
SharpeRatioUnguarded(returns) == DivBySqrt(AvgReturn(returns), StdDev(returns))

\* stdDev > 0 ? avgReturn / stdDev : 0
SharpeRatio(returns) ==
  LET stdDev == StdDev(returns)
  IN IF SqrtGtZero(stdDev) THEN DivBySqrt(AvgReturn(returns), stdDev) ELSE SurdZero

----------------------------------------------------------------------------
(* The same computation on IEEE 754 doubles that are not integers.  A      *)
(* double of the binade [2^e, 2^(e+1)) is kept as its 53-bit significand,  *)
(* an integer counted in units of 2^(e-52) and held in two limbs           *)
(* hi * 2^26 + lo.  Sums and quotients are the exact results rounded to 53 *)
(* significant bits, ties to even, as the double operations are.  The      *)
(* checked values lie in one binade, are positive and far from the         *)
(* underflow range, so a difference is zero exactly when its operands are  *)
(* equal and the square of a non-zero difference is positive: past the     *)
(* mean only the signs of the numbers are kept.                            *)

DoublePrecision == 53

LimbBase == 2 ^ 26

Big(hi, lo) == [hi |-> hi, lo |-> lo]

BigZero == Big(0, 0)

BigAdd(a, b) ==
  LET lo == a.lo + b.lo
  IN Big(a.hi + b.hi + lo \div LimbBase, lo % LimbBase)

\* quotient and remainder of a by the small integer d
BigDivMod(a, d) ==
  LET low == (a.hi % d) * LimbBase + a.lo
  IN [q |-> Big(a.hi \div d, low \div d), r |-> low % d]

BigMulSmall(a, g) ==
  LET lo == a.lo * g
  IN Big(a.hi * g + lo \div LimbBase, lo % LimbBase)

\* number of bits of a, for a >= 2^26
BitLen(a) == 26 + (CHOOSE k \in 1..31 : 2 ^ (k - 1) <= a.hi /\ a.hi < 2 ^ k)

\* a / n rounded to DoublePrecision significant bits, ties to even
RoundQuotient(a, n) ==
  LET qr == BigDivMod(a, n)
      len == BitLen(qr.q)
      g == IF len > DoublePrecision THEN 2 ^ (len - DoublePrecision) ELSE 1
      split == BigDivMod(qr.q, g)
      twice == 2 * (split.r * n + qr.r)
      half == g * n
      up == twice > half \/ (twice = half /\ split.q.lo % 2 = 1)
  IN BigMulSmall(IF up THEN BigAdd(split.q, Big(0, 1)) ELSE split.q, g)

\* sum + r on doubles
DoubleAdd(sum, r) == IF sum = BigZero THEN r ELSE RoundQuotient(BigAdd(sum, r), 1)

\* returns.reduce((sum, r) => sum + r, 0) / returns.length on doubles
AvgReturnDouble(returns) ==
  RoundQuotient(Reduce(DoubleAdd, returns, BigZero), Len(returns))

\* sign of Math.pow(r - avgReturn, 2)
SquaredDeviationSign(r, avgReturn) == IF r = avgReturn THEN 0 ELSE 1

\* sign of returns.reduce((sum, r) => sum + Math.pow(r - avgReturn, 2), 0) / returns.length
VarianceSignDouble(returns) ==
  LET avgReturn == AvgReturnDouble(returns)
  IN Reduce(LAMBDA sum, r : MaxInt(sum, SquaredDeviationSign(r, avgReturn)), returns, 0)

\* stdDev > 0 ? avgReturn / stdDev : 0 on doubles: the sign of the result
SharpeRatioDouble(returns) ==
  IF VarianceSignDouble(returns) > 0 THEN [sgn |-> 1] ELSE SurdZero

RoiDouble(trade) == trade.roi

----------------------------------------------------------------------------

StreakInit ==
  [bestStreak |-> 0, worstStreak |-> 0, currentWinStreak |-> 0, currentLossStreak |-> 0]

\* variant: a trade with profit_loss = 0 extends the win run
StreakStepZeroWins(st, trade) ==
  IF trade.profit_loss >= 0
  THEN [st EXCEPT !.currentWinStreak = st.currentWinStreak + 1,
                  !.currentLossStreak = 0,
                  !.bestStreak = MaxInt(st.bestStreak, st.currentWinStreak + 1)]
  ELSE [st EXCEPT !.currentLossStreak = st.currentLossStreak + 1,
                  !.currentWinStreak = 0,
                  !.worstStreak = MaxInt(st.worstStreak, st.currentLossStreak + 1)]

\* variant: the maxima are taken before the counters are incremented
StreakStepStaleMax(st, trade) ==
  IF trade.profit_loss > 0
  THEN [st EXCEPT !.currentWinStreak = st.currentWinStreak + 1,
                  !.currentLossStreak = 0,
                  !.bestStreak = MaxInt(st.bestStreak, st.currentWinStreak)]
  ELSE [st EXCEPT !.currentLossStreak = st.currentLossStreak + 1,
                  !.currentWinStreak = 0,
                  !.worstStreak = MaxInt(st.worstStreak, st.currentLossStreak)]

\* one iteration of the streak forEach
StreakStep(st, trade) ==
  IF trade.profit_loss > 0
  THEN [st EXCEPT !.currentWinStreak = st.currentWinStreak + 1,
                  !.currentLossStreak = 0,
                  !.bestStreak = MaxInt(st.bestStreak, st.currentWinStreak + 1)]
  ELSE [st EXCEPT !.currentLossStreak = st.currentLossStreak + 1,
                  !.currentWinStreak = 0,
                  !.worstStreak = MaxInt(st.worstStreak, st.currentLossStreak + 1)]

Streaks(ts) == Reduce(StreakStep, ts, StreakInit)

\* variant: the Math.abs is missing
AvgRiskSigned(ts) ==
  Div(Num(Reduce(LAMBDA sum, trade : sum + trade.profit_loss, ts, 0)), Num(Len(ts)))

\* trades.reduce((sum, trade) => sum + Math.abs(trade.profit_loss), 0) / trades.length
AvgRiskPerTrade(ts) ==
  Div(Num(Reduce(LAMBDA sum, trade : sum + AbsInt(trade.profit_loss), ts, 0)), Num(Len(ts)))

\* Math.max(...trades.map(trade => Math.abs(trade.profit_loss)))
MaxRisk(ts) == MathMax(Map(LAMBDA trade : Num(AbsInt(trade.profit_loss)), ts))

\* variant: the thresholds are inclusive
RiskLevelInclusive(maxDrawdown) ==
  IF ~Gt(Num(HighDrawdown), maxDrawdown) THEN "High"
  ELSE IF ~Gt(Num(ModerateDrawdown), maxDrawdown) THEN "Moderate"
  ELSE "Low"

\* 'High' above 20, 'Moderate' above 10, else 'Low'
RiskLevel(maxDrawdown) ==
  IF Gt(maxDrawdown, Num(HighDrawdown)) THEN "High"
  ELSE IF Gt(maxDrawdown, Num(ModerateDrawdown)) THEN "Moderate"
  ELSE "Low"

IsLong(t) == t.entry_side = "Long"

\* variant: every trade that is not 'Long' is counted as 'Short'
IsNotLong(t) == t.entry_side # "Long"

IsShort(t) == t.entry_side = "Short"

LongTrades(ts) == Len(SelectSeq(ts, IsLong))

ShortTrades(ts) == Len(SelectSeq(ts, IsShort))

\* the object returned for a non-empty trades array, given its sharpeRatio
\* and the counters dd and st the two forEach walks have left
ComputedFrom(ss, ts, sharpeRatio, dd, st) ==
  [sharpeRatio |-> sharpeRatio,
   maxDrawdown |-> dd.maxDrawdown,
   maxDrawdownAmount |-> dd.maxDrawdownAmount,
   profitFactor |-> ProfitFactor(TotalProfit(ts), TotalLoss(ts)),
   totalTrades |-> Len(ts),
   winRate |-> WinRate(ts),
   totalPnL |-> SumPnL(ts),
   longTrades |-> LongTrades(ts),
   shortTrades |-> ShortTrades(ts),
   avgRiskPerTrade |-> AvgRiskPerTrade(ts),
   maxRisk |-> MaxRisk(ts),
   bestStreak |-> st.bestStreak,
   worstStreak |-> st.worstStreak,
   riskLevel |-> RiskLevel(dd.maxDrawdown),
   activeCapital |-> ActiveCapital(ss)]

\* the result computed for a non-empty trades array, given its sharpeRatio
ComputedWith(ss, ts, sharpeRatio) ==
  ComputedFrom(ss, ts, sharpeRatio, Drawdown(ts), Streaks(ts))

\* the result computed for a non-empty trades array
ComputedAnalytics(ss, ts) == ComputedWith(ss, ts, SharpeRatio(Map(Roi, ts)))

\* variant: no early return for an empty trades array
calculateUserAnalyticsNoEarlyReturn(ss, ts) == ComputedAnalytics(ss, ts)

calculateUserAnalytics(ss, ts) ==
  IF Len(ts) = 0 THEN EmptyAnalytics(ss) ELSE ComputedAnalytics(ss, ts)

\* calculateUserAnalytics on trades whose roi is a double that is not an integer
calculateUserAnalyticsDouble(ss, ts) ==
  IF Len(ts) = 0 THEN EmptyAnalytics(ss)
  ELSE ComputedWith(ss, ts, SharpeRatioDouble(Map(RoiDouble, ts)))

\* variant: trades.sort((a, b) => a.profit_loss - b.profit_loss) before the walk
RECURSIVE TradesSortedInPlace(_)
TradesSortedInPlace(ts) ==
  IF Len(ts) <= 1 THEN ts
  ELSE LET rest == TradesSortedInPlace(Tail(ts))
           k == Cardinality({i \in 1..Len(rest) : rest[i].profit_loss < Head(ts).profit_loss})
       IN SubSeq(rest, 1, k) \o <<Head(ts)>> \o SubSeq(rest, k + 1, Len(rest))

\* the trades array after the call: reduce, filter, forEach, map and the
\* spread only read it, and no callback assigns to a trade
TradesAfter(ts) == ts

\* the sessions array after the call: reduce only reads it
SessionsAfter(ss) == ss

----------------------------------------------------------------------------
(* The inputs and the state machine: the page has fetched sessions and     *)
(* trades, and computes the analytics from them.                           *)

Trade == [profit_loss : PnLVals, roi : RoiVals, entry_side : SideVals]

SeqsUpTo(S, k) == UNION {[1..m -> S] : m \in 0..k}

\* a trade of the documented examples: only its profit_loss matters there
Ex(p) == [profit_loss |-> p, roi |-> IF p > 0 THEN 2 ELSE -3, entry_side |-> IF p > 0 THEN "Long" ELSE "Short"]

DrawdownExample == <<Ex(10), Ex(-20), Ex(5)>>

AllWinningExample == <<Ex(10), Ex(20), Ex(30)>>

AllLosingExample == <<Ex(-5), Ex(-5), Ex(-5)>>

StreakExample == <<Ex(10), Ex(10), Ex(-5), Ex(10), Ex(-5), Ex(-5), Ex(-5)>>

Examples == {DrawdownExample, AllWinningExample, AllLosingExample, StreakExample}

TradeInputs == SeqsUpTo(Trade, MaxLen) \cup Examples

\* no session, and two sessions with their capital
SessionInputs == {<<>>, <<[current_capital |-> 100], [current_capital |-> 250]>>}

\* The sessions only feed activeCapital: the longest trade sequences are
\* paired with no session, the shorter ones with both session inputs.
SessionInputsFor(ts) == IF Len(ts) < MaxLen THEN SessionInputs ELSE {<<>>}

Init ==
  /\ trades \in TradeInputs
  /\ sessions \in SessionInputsFor(trades)
  /\ pc = "loaded"
  /\ analytics = Null
  /\ calls = <<>>
  /\ PageIdle
  /\ WidgetsIdle

\* setAnalytics(calculateUserAnalytics(sessionsData, flatTrades))
Calculate ==
  /\ pc = "loaded"
  /\ analytics' = calculateUserAnalytics(sessions, trades)
  /\ pc' = "done"
  /\ trades' = TradesAfter(trades)
  /\ sessions' = SessionsAfter(sessions)
  /\ UNCHANGED <<calls, pageVars, widgetVars>>

Next == Calculate

Spec == Init /\ [][Next]_vars

----------------------------------------------------------------------------
(* Trades whose roi is a double of the binade [2^-4, 2^-3).                *)

\* 0.0625 = 0x1.0000000000000p-4
Roi00625 == Big(67108864, 0)

\* 0.07 = 0x1.1eb851eb851ecp-4
Roi007 == Big(75161927, 45634028)

\* 0.1 = 0x1.999999999999ap-4
Roi01 == Big(107374182, 26843546)

\* 0.12 = 0x1.eb851eb851eb8p-4
Roi012 == Big(128849018, 59055800)

RoiDoubles == {Roi00625, Roi007, Roi01, Roi012}

TradeDouble == [profit_loss : {10}, roi : RoiDoubles, entry_side : {"Long"}]

TradeDoubleInputs == SeqsUpTo(TradeDouble, MaxLen)

InitDouble ==
  /\ sessions \in SessionInputs
  /\ trades \in TradeDoubleInputs
  /\ pc = "loaded"
  /\ analytics = Null
  /\ calls = <<>>
  /\ PageIdle
  /\ WidgetsIdle

\* setAnalytics(calculateUserAnalytics(sessionsData, flatTrades))
CalculateDouble ==
  /\ pc = "loaded"
  /\ analytics' = calculateUserAnalyticsDouble(sessions, trades)
  /\ pc' = "done"
  /\ trades' = TradesAfter(trades)
  /\ sessions' = SessionsAfter(sessions)
  /\ UNCHANGED <<calls, pageVars, widgetVars>>

NextDouble == CalculateDouble

SpecDouble == InitDouble /\ [][NextDouble]_vars

----------------------------------------------------------------------------
(* Reference definitions the properties are stated with.  They describe    *)
(* the trade sequence directly and use none of the operators above.        *)

Done == pc = "done"

N == Len(trades)

PnL(i) == trades[i].profit_loss

SetMax(S) == CHOOSE x \in S : \A y \in S : y <= x

RECURSIVE SetSum(_, _)
SetSum(f(_), S) ==
  IF S = {} THEN 0 ELSE LET x == CHOOSE y \in S : TRUE IN f(x) + SetSum(f, S \ {x})

\* The drawdown walk, described step by step: running[k] is the cumulative
\* profit_loss of the first k trades, peak[k] the largest cumulative value of
\* the first k steps starting from 0, amount the deepest drawdown of any
\* prefix and step the first step that reaches it.
DrawdownProfile ==
  LET running[k \in 0..N] == IF k = 0 THEN 0 ELSE running[k - 1] + PnL(k)
      peak[k \in 0..N] ==
        IF k = 0 THEN 0 ELSE IF running[k] > peak[k - 1] THEN running[k] ELSE peak[k - 1]
      drawdown == [k \in 0..N |-> peak[k] - running[k]]
      amount == SetMax({drawdown[k] : k \in 0..N})
      step == CHOOSE k \in 0..N :
                /\ drawdown[k] = amount
                /\ \A j \in 0..(k - 1) : drawdown[j] < amount
  IN [amount |-> amount, drawdownAtStep |-> drawdown[step], peakAtStep |-> peak[step]]

\* the fraction num / den in lowest terms, den > 0
Frac(num, den) ==
  LET g == SetMax({x \in 1..den : num % x = 0 /\ den % x = 0})
  IN [n |-> num \div g, d |-> den \div g]

\* num / den * 100
Percent(num, den) == Frac(num * 100, den)

Whole(i) == [n |-> i, d |-> 1]

WinIdx == {i \in 1..N : PnL(i) > 0}

LossIdx == {i \in 1..N : PnL(i) < 0}

GrossProfit == SetSum(PnL, WinIdx)

GrossLoss == -SetSum(PnL, LossIdx)

\* lengths of the runs of consecutive trades that all satisfy P
RunLengths(P(_)) ==
  {0} \cup {j - i + 1 : <<i, j>> \in {r \in (1..N) \X (1..N) : r[1] <= r[2] /\ \A k \in r[1]..r[2] : P(k)}}

IsWinAt(i) == PnL(i) > 0

IsNonWinAt(i) == PnL(i) <= 0

----------------------------------------------------------------------------
(* C1: for an empty trade sequence the result has winRate, sharpeRatio,    *)
(* maxDrawdown, maxDrawdownAmount, profitFactor and totalPnL equal to 0,   *)
(* both streaks and both side counts equal to 0 and riskLevel 'Low',       *)
(* whatever the sessions are.                                              *)
C1_EmptyInput ==
  (Done /\ trades = <<>>) =>
    /\ analytics.winRate = Whole(0)
    /\ analytics.sharpeRatio = [sgn |-> 0, sq |-> Whole(0)]
    /\ analytics.maxDrawdown = Whole(0)
    /\ analytics.maxDrawdownAmount = 0
    /\ analytics.profitFactor = Whole(0)
    /\ analytics.totalPnL = 0
    /\ analytics.bestStreak = 0
    /\ analytics.worstStreak = 0
    /\ analytics.longTrades = 0
    /\ analytics.shortTrades = 0
    /\ analytics.riskLevel = "Low"

C1_Witness == Done /\ trades = <<>> /\ sessions # <<>>

(* C2: maxDrawdownAmount is the maximum over the prefixes of the sequence  *)
(* of peak - running; maxDrawdown is drawdown / peak * 100 at the first    *)
(* step reaching that maximum, 0 if the peak is not positive there; the    *)
(* sequence [10, -20, 5] gives 20 and 200.                                 *)
C2_Drawdown ==
  Done =>
    /\ LET ref == DrawdownProfile
       IN /\ analytics.maxDrawdownAmount = ref.amount
          /\ analytics.maxDrawdown =
               IF ref.peakAtStep > 0
               THEN Percent(ref.drawdownAtStep, ref.peakAtStep)
               ELSE Whole(0)
    /\ trades = DrawdownExample =>
         analytics.maxDrawdownAmount = 20 /\ analytics.maxDrawdown = Whole(200)

C2_Witness ==
  /\ Done
  /\ trades = DrawdownExample
  /\ analytics.maxDrawdownAmount = 20

(* C3: bestStreak is the length of the longest run of consecutive trades   *)
(* with profit_loss > 0, worstStreak that of the longest run with          *)
(* profit_loss <= 0; [win, win, loss, win, loss, loss, loss] gives 2, 3.   *)
C3_Streaks ==
  Done =>
    /\ analytics.bestStreak = SetMax(RunLengths(IsWinAt))
    /\ analytics.worstStreak = SetMax(RunLengths(IsNonWinAt))
    /\ trades = StreakExample => analytics.bestStreak = 2 /\ analytics.worstStreak = 3

C3_Witness ==
  /\ Done
  /\ trades = StreakExample
  /\ analytics.worstStreak = 3

(* C4: profitFactor is grossProfit / grossLoss when grossLoss > 0, else    *)
(* the sentinel 999 when grossProfit > 0, else 0 (for instance when every  *)
(* trade has profit_loss = 0).                                             *)
C4_ProfitFactor ==
  (Done /\ N > 0) =>
    analytics.profitFactor =
      IF GrossLoss > 0 THEN Frac(GrossProfit, GrossLoss)
      ELSE IF GrossProfit > 0 THEN Whole(999)
      ELSE Whole(0)

C4_Witness ==
  /\ Done
  /\ GrossLoss > 0
  /\ GrossProfit > 0
  /\ \E i \in 1..N : PnL(i) = 0

(* C5: for a non-empty sequence of n trades that all have profit_loss > 0, *)
(* profitFactor is the sentinel 999, maxDrawdown and maxDrawdownAmount are *)
(* 0, bestStreak is n and worstStreak is 0.                                *)
C5_AllWinning ==
  (Done /\ N > 0 /\ \A i \in 1..N : PnL(i) > 0) =>
    /\ analytics.profitFactor = Whole(999)
    /\ analytics.maxDrawdown = Whole(0)
    /\ analytics.maxDrawdownAmount = 0
    /\ analytics.bestStreak = N
    /\ analytics.worstStreak = 0

C5_Witness ==
  /\ Done
  /\ trades = AllWinningExample
  /\ analytics.bestStreak = 3

(* C6: for a non-empty sequence of n trades that all have profit_loss < 0, *)
(* winRate and profitFactor are 0, bestStreak is 0 and worstStreak is n.   *)
C6_AllLosing ==
  (Done /\ N > 0 /\ \A i \in 1..N : PnL(i) < 0) =>
    /\ analytics.winRate = Whole(0)
    /\ analytics.profitFactor = Whole(0)
    /\ analytics.bestStreak = 0
    /\ analytics.worstStreak = N

C6_Witness ==
  /\ Done
  /\ trades = AllLosingExample
  /\ analytics.worstStreak = 3

(* C7: for non-empty input winRate is the number of trades with            *)
(* profit_loss > 0 divided by the number of all trades, times 100; a trade *)
(* with profit_loss = 0 counts in the denominator only; winRate is always  *)
(* between 0 and 100.                                                      *)
C7_WinRate ==
  Done =>
    /\ N > 0 => analytics.winRate = Percent(Cardinality(WinIdx), N)
    /\ analytics.winRate.d > 0
    /\ 0 <= analytics.winRate.n
    /\ analytics.winRate.n <= 100 * analytics.winRate.d

C7_Witness ==
  /\ Done
  /\ WinIdx # {}
  /\ LossIdx # {}
  /\ \E i \in 1..N : PnL(i) = 0

(* C8: riskLevel is 'High' exactly when maxDrawdown > 20, 'Moderate'       *)
(* exactly when 10 < maxDrawdown <= 20 and 'Low' otherwise; maxDrawdown 10 *)
(* gives 'Low' and maxDrawdown 20 gives 'Moderate'.                        *)
C8_RiskLevel ==
  Done =>
    LET md == analytics.maxDrawdown
    IN /\ md.d > 0
       /\ (analytics.riskLevel = "High") <=> (md.n > 20 * md.d)
       /\ (analytics.riskLevel = "Moderate") <=> (md.n > 10 * md.d /\ md.n <= 20 * md.d)
       /\ (analytics.riskLevel = "Low") <=> (md.n <= 10 * md.d)
       /\ md = Whole(10) => analytics.riskLevel = "Low"
       /\ md = Whole(20) => analytics.riskLevel = "Moderate"

C8_Witness ==
  /\ Done
  /\ analytics.maxDrawdown = Whole(20)
  /\ analytics.riskLevel = "Moderate"

C8_WitnessLow ==
  /\ Done
  /\ analytics.maxDrawdown = Whole(10)
  /\ analytics.riskLevel = "Low"

C8_WitnessHigh ==
  /\ Done
  /\ N <= MaxLen
  /\ analytics.riskLevel = "High"

(* C9: longTrades + shortTrades <= totalTrades, where longTrades counts    *)
(* the trades with entry_side 'Long' and shortTrades those with 'Short';   *)
(* equality holds exactly when every trade has one of the two values.      *)
C9_SideCounts ==
  Done =>
    /\ analytics.longTrades = Cardinality({i \in 1..N : trades[i].entry_side = "Long"})
    /\ analytics.shortTrades = Cardinality({i \in 1..N : trades[i].entry_side = "Short"})
    /\ analytics.longTrades + analytics.shortTrades <= analytics.totalTrades
    /\ (analytics.longTrades + analytics.shortTrades = analytics.totalTrades)
         <=> (\A i \in 1..N : trades[i].entry_side \in {"Long", "Short"})

C9_Witness ==
  /\ Done
  /\ analytics.longTrades > 0
  /\ analytics.shortTrades > 0
  /\ analytics.longTrades + analytics.shortTrades < analytics.totalTrades

C11_ZeroVariance ==
  (Done /\ N > 0 /\ \A i \in 1..N : trades[i].roi = trades[1].roi) =>
    analytics.sharpeRatio.sgn = 0

(* C13: the call leaves its inputs unchanged: afterwards the trades        *)
(* sequence has the same elements in the same order with the same field    *)
(* values, and the sessions sequence is unchanged.                         *)
C13_InputsUnchanged ==
  [][(pc = "loaded" /\ pc' = "done") => (trades' = trades /\ sessions' = sessions)]_vars

C13_Witness ==
  /\ Done
  /\ N >= 2
  /\ sessions # <<>>
  /\ PnL(1) > PnL(2)

Capital(i) == sessions[i].current_capital

(* C14: activeCapital is the sum of current_capital over the sessions, for *)
(* an empty and for a non-empty trade sequence alike.                      *)
C14_ActiveCapital ==
  Done => analytics.activeCapital = SetSum(Capital, 1..Len(sessions))

C14_Witness ==
  /\ Done
  /\ trades = <<>>
  /\ analytics.activeCapital = 350

C14_WitnessTrades ==
  /\ Done
  /\ trades # <<>>
  /\ analytics.activeCapital = 350

C16_LargestPercentDecline ==
  Done =>
    LET running == [k \in 0..N |-> SetSum(PnL, 1..k)]
        peak == [k \in 0..N |-> SetMax({0} \cup {running[j] : j \in 1..k})]
        md == analytics.maxDrawdown
    IN \A k \in 1..N :
         peak[k] > 0 => (peak[k] - running[k]) * 100 * md.d <= md.n * peak[k]

(* C17: when the peak is still 0 at the step that sets the deepest         *)
(* drawdown, maxDrawdown is 0 and riskLevel is 'Low' although              *)
(* maxDrawdownAmount is positive; a sequence of only losing trades gives   *)
(* maxDrawdownAmount = |totalPnL|, maxDrawdown = 0 and riskLevel 'Low'.    *)
C17_PeakStillZero ==
  Done =>
    /\ LET ref == DrawdownProfile
       IN (ref.amount > 0 /\ ref.peakAtStep = 0) =>
            /\ analytics.maxDrawdownAmount > 0
            /\ analytics.maxDrawdown = Whole(0)
            /\ analytics.riskLevel = "Low"
    /\ (N > 0 /\ \A i \in 1..N : PnL(i) < 0) =>
         /\ analytics.maxDrawdownAmount = -SetSum(PnL, 1..N)
         /\ analytics.maxDrawdownAmount = -analytics.totalPnL
         /\ analytics.maxDrawdown = Whole(0)
         /\ analytics.riskLevel = "Low"

C17_Witness ==
  /\ Done
  /\ N >= 2
  /\ \A i \in 1..N : PnL(i) < 0
  /\ analytics.maxDrawdownAmount > 0
  /\ analytics.riskLevel = "Low"

C17_WitnessMixed ==
  /\ Done
  /\ WinIdx # {}
  /\ DrawdownProfile.amount > 0
  /\ DrawdownProfile.peakAtStep = 0

\* a total order on trade records, to name one arrangement of a multiset
TradeKey(t) ==
  (t.profit_loss + 100) * 100 + (t.roi + 10) * 3
    + (IF t.entry_side = "Long" THEN 0 ELSE IF t.entry_side = "Short" THEN 1 ELSE 2)

\* the trades arranged by TradeKey: the same for every permutation of them
RECURSIVE Arranged(_)
Arranged(ts) ==
  IF Len(ts) <= 1 THEN ts
  ELSE LET rest == Arranged(Tail(ts))
           k == Cardinality({i \in 1..Len(rest) : TradeKey(rest[i]) < TradeKey(Head(ts))})
       IN SubSeq(rest, 1, k) \o <<Head(ts)>> \o SubSeq(rest, k + 1, Len(rest))

RoiAt(i) == trades[i].roi

RoiSum == SetSum(RoiAt, 1..N)

\* N * N times the squared deviation of roi i from the mean
ScaledSquaredDeviation(i) == (N * RoiAt(i) - RoiSum) * (N * RoiAt(i) - RoiSum)

\* N * N * N times the population variance of the roi values
ScaledVariance == SetSum(ScaledSquaredDeviation, 1..N)

AbsPnL(i) == IF PnL(i) < 0 THEN -PnL(i) ELSE PnL(i)

----------------------------------------------------------------------------
(* Two invocations of calculateUserAnalytics whose steps interleave.  The  *)
(* counters of the two forEach walks are let-bound inside the function, so *)
(* every invocation has a frame of its own; calls[k] is the frame of       *)
(* invocation k.                                                           *)

MaxCallLen == 2

Callers == {1, 2}

CallTrade == {Ex(p) : p \in PnLVals}

CallTradeInputs == SeqsUpTo(CallTrade, MaxCallLen)

\* invocation 1 is given no session, invocation 2 the two sessions
CallSessions(k) ==
  IF k = 1 THEN <<>> ELSE <<[current_capital |-> 100], [current_capital |-> 250]>>

\* the frame of a call that has not executed a statement yet
Frame(ss, ts) ==
  [sessions |-> ss, trades |-> ts, pc |-> "start", i |-> 0,
   dd |-> DrawdownInit, st |-> StreakInit, result |-> Null]

\* variant: runningPnL, peak and the streak counters are declared outside
\* the function, and every invocation works on those of the first
SharedCounters(cs, k) == cs[1]

\* the counters invocation k reads: those of its own frame
OwnCounters(cs, k) == cs[k]

InitConcurrent ==
  /\ calls \in {[k \in Callers |-> Frame(CallSessions(k), f[k])] :
                   f \in [Callers -> CallTradeInputs]}
  /\ sessions = <<>>
  /\ trades = <<>>
  /\ pc = "idle"
  /\ analytics = Null
  /\ PageIdle
  /\ WidgetsIdle

\* if (trades.length === 0) return {...}; otherwise the walk starts
Enter(k) ==
  /\ calls[k].pc = "start"
  /\ calls' = IF Len(calls[k].trades) = 0
               THEN [calls EXCEPT ![k].pc = "done",
                                  ![k].result = EmptyAnalytics(calls[k].sessions)]
               ELSE [calls EXCEPT ![k].pc = "drawdown",
                                  ![k].i = 1,
                                  ![k].dd = DrawdownInit]

\* one iteration of the drawdown forEach
DrawdownIteration(k) ==
  /\ calls[k].pc = "drawdown"
  /\ calls[k].i <= Len(calls[k].trades)
  /\ calls' = [calls EXCEPT
                 ![k].dd = DrawdownStep(OwnCounters(calls, k).dd, calls[k].trades[calls[k].i]),
                 ![k].i = calls[k].i + 1]

\* the drawdown forEach is over; the streak counters are declared
StreaksBegin(k) ==
  /\ calls[k].pc = "drawdown"
  /\ calls[k].i > Len(calls[k].trades)
  /\ calls' = [calls EXCEPT ![k].pc = "streak", ![k].i = 1, ![k].st = StreakInit]

\* one iteration of the streak forEach
StreakIteration(k) ==
  /\ calls[k].pc = "streak"
  /\ calls[k].i <= Len(calls[k].trades)
  /\ calls' = [calls EXCEPT
                 ![k].st = StreakStep(OwnCounters(calls, k).st, calls[k].trades[calls[k].i]),
                 ![k].i = calls[k].i + 1]

\* the streak forEach is over; the result object is returned
Return(k) ==
  /\ calls[k].pc = "streak"
  /\ calls[k].i > Len(calls[k].trades)
  /\ calls' = [calls EXCEPT
                 ![k].pc = "done",
                 ![k].result = ComputedFrom(calls[k].sessions, calls[k].trades,
                                            SharpeRatio(Map(Roi, calls[k].trades)),
                                            OwnCounters(calls, k).dd,
                                            OwnCounters(calls, k).st)]

NextConcurrent ==
  /\ \E k \in Callers :
       \/ Enter(k)
       \/ DrawdownIteration(k)
       \/ StreaksBegin(k)
       \/ StreakIteration(k)
       \/ Return(k)
  /\ UNCHANGED <<sessions, trades, pc, analytics, pageVars, widgetVars>>

SpecConcurrent == InitConcurrent /\ [][NextConcurrent]_vars

\* the trades invocation k has walked over in the phase it is in
Walked(k) == SubSeq(calls[k].trades, 1, calls[k].i - 1)

(* C21: two invocations of the aggregator whose steps interleave           *)
(* arbitrarily, each over its own trade sequence, produce the results of   *)
(* running them one after the other: at every step the drawdown and streak *)
(* counters of an invocation are those of a run of its own over the trades *)
(* it has walked, and its result is that of calculateUserAnalytics on its  *)
(* own inputs.                                                             *)
C21_Interleaved ==
  \A k \in Callers :
    /\ calls[k].pc = "drawdown" => calls[k].dd = Drawdown(Walked(k))
    /\ calls[k].pc = "streak" =>
         /\ calls[k].dd = Drawdown(calls[k].trades)
         /\ calls[k].st = Streaks(Walked(k))
    /\ calls[k].pc = "done" =>
         calls[k].result = calculateUserAnalytics(calls[k].sessions, calls[k].trades)

\* both invocations are in the middle of a walk over different trades
C21_Witness ==
  /\ calls[1].pc = "streak" /\ calls[1].i = 2
  /\ calls[2].pc = "drawdown" /\ calls[2].i = 2
  /\ Len(calls[1].trades) = 2 /\ Len(calls[2].trades) = 2
  /\ calls[1].trades # calls[2].trades
  /\ calls[1].dd # calls[2].dd

\* both invocations have returned, with different results
C21_WitnessDone ==
  /\ \A k \in Callers : calls[k].pc = "done" /\ Len(calls[k].trades) = 2
  /\ calls[1].result.maxDrawdownAmount # calls[2].result.maxDrawdownAmount
  /\ calls[1].result.bestStreak # calls[2].result.bestStreak

----------------------------------------------------------------------------
(* The analytics page: its state and loadUserData.  tradingService is not  *)
(* part of these sources: a call of getSessions or getTrades resolves with *)
(* the stored records of its argument or rejects.  loads holds one record  *)
(* per started run of loadUserData, with the position of the run.          *)

MaxLoads == 3

Users == {"u1", "u2"}

\* the stored sessions of a user: u1 has two, u2 one, any other none
SessionsOf(u) ==
  IF u = "u1" THEN <<[id |-> "s1", current_capital |-> 100],
                     [id |-> "s2", current_capital |-> 250]>>
  ELSE IF u = "u2" THEN <<[id |-> "s3", current_capital |-> 500]>>
  ELSE <<>>

\* the stored trades of a session: those of s3 are none
TradesOf(id) ==
  IF id = "s1" THEN <<Ex(10)>>
  ELSE IF id = "s2" THEN <<Ex(-2), Ex(10)>>
  ELSE <<>>

\* tradesArrays.flat()
Flat(arrays) == Reduce(LAMBDA acc, a : acc \o a, arrays, <<>>)

\* the state after the useState initialisers, before any effect has run
InitPage ==
  /\ sessions = <<>>
  /\ allTrades = <<>>
  /\ analytics = Null
  /\ loading = TRUE
  /\ user = NoUser
  /\ loads = <<>>
  /\ trades = <<>>
  /\ pc = "idle"
  /\ calls = <<>>
  /\ WidgetsIdle

\* useEffect(..., [user]) with a user: loadUserData() runs up to its first
\* await: setLoading(true) and the call getSessions(user.id)
UserChanges(u) ==
  /\ Len(loads) < MaxLoads
  /\ user' = u
  /\ loading' = TRUE
  /\ loads' = Append(loads, [user |-> u, pc |-> "getSessions", sessionsData |-> <<>>,
                             before |-> [analytics |-> analytics, allTrades |-> allTrades]])
  /\ UNCHANGED <<sessions, allTrades, analytics>>

\* useEffect(..., [user]) without a user: nothing is loaded
UserLeaves ==
  /\ user # NoUser
  /\ user' = NoUser
  /\ UNCHANGED <<sessions, allTrades, analytics, loading, loads>>

\* getSessions resolves: setSessions(sessionsData), and the getTrades calls
\* are made, one per session
SessionsResolve(r) ==
  /\ loads[r].pc = "getSessions"
  /\ sessions' = SessionsOf(loads[r].user)
  /\ loads' = [loads EXCEPT ![r].pc = "getTrades",
                            ![r].sessionsData = SessionsOf(loads[r].user)]
  /\ UNCHANGED <<user, allTrades, analytics, loading>>

\* variant: no finally block, a rejection leaves loading as it is
RejectedNoFinally(r) ==
  /\ loads' = [loads EXCEPT ![r].pc = "failed"]
  /\ UNCHANGED <<user, sessions, allTrades, analytics, loading>>

\* an awaited call of run r rejects: catch logs the error, finally does
\* setLoading(false)
Rejected(r) ==
  /\ loads' = [loads EXCEPT ![r].pc = "failed"]
  /\ loading' = FALSE
  /\ UNCHANGED <<user, sessions, allTrades, analytics>>

\* getSessions rejects
SessionsReject(r) ==
  /\ loads[r].pc = "getSessions"
  /\ Rejected(r)

\* Promise.all resolves, every getTrades call having resolved:
\* setAllTrades(flatTrades), setAnalytics(...), and finally setLoading(false)
TradesResolve(r) ==
  /\ loads[r].pc = "getTrades"
  /\ LET flatTrades == Flat(Map(LAMBDA session : TradesOf(session.id), loads[r].sessionsData))
     IN /\ allTrades' = flatTrades
        /\ analytics' = calculateUserAnalytics(loads[r].sessionsData, flatTrades)
  /\ loading' = FALSE
  /\ loads' = [loads EXCEPT ![r].pc = "loaded"]
  /\ UNCHANGED <<user, sessions>>

\* Promise.all rejects: one of the getTrades calls has rejected
TradesReject(r) ==
  /\ loads[r].pc = "getTrades"
  /\ Len(loads[r].sessionsData) > 0
  /\ Rejected(r)

\* an awaited call of run r settles
Settle(r) ==
  /\ r \in 1..Len(loads)
  /\ \/ SessionsResolve(r)
     \/ SessionsReject(r)
     \/ TradesResolve(r)
     \/ TradesReject(r)
  /\ UNCHANGED <<trades, pc, calls, widgetVars>>

NextPage ==
  /\ \/ \E u \in Users : UserChanges(u)
     \/ UserLeaves
     \/ \E r \in 1..Len(loads) : SessionsResolve(r)
     \/ \E r \in 1..Len(loads) : SessionsReject(r)
     \/ \E r \in 1..Len(loads) : TradesResolve(r)
     \/ \E r \in 1..Len(loads) : TradesReject(r)
  /\ UNCHANGED <<trades, pc, calls, widgetVars>>

SpecPage == InitPage /\ [][NextPage]_vars

\* run r has started
Started(r) == r \in 1..Len(loads)

\* run r has ended
Ended(r) == r \in 1..Len(loads) /\ loads[r].pc \in {"loaded", "failed"}

\* run r awaits a call: ENABLED <<Settle(r)>>_vars, as a call that was made
\* can resolve, and the step changes loads[r]
Awaiting(r) == Started(r) /\ ~Ended(r)

\* Every call that was made settles, it resolves or it rejects: weak
\* fairness of Settle(r), that is WF_vars(Settle(r)) with its ENABLED
\* written as the state predicate Awaiting(r).
SpecPageFair ==
  SpecPage /\ \A r \in 1..MaxLoads : ([]<>~Awaiting(r) \/ []<><<Settle(r)>>_vars)

\* what the page renders: the spinner, the 'No Trading Data' view, or the
\* analytics with the detailed statistics
View ==
  IF loading THEN "spinner"
  ELSE IF analytics = Null THEN "No Trading Data"
  ELSE "analytics"

(* C22: whenever the page is not loading and analytics is non-null, the    *)
(* stored analytics is calculateUserAnalytics of the stored sessions and   *)
(* allTrades.                                                              *)
C22_AnalyticsOfStoredData ==
  (~loading /\ analytics # Null) =>
    analytics = calculateUserAnalytics(sessions, allTrades)

\* the detailed statistics: (analytics.longTrades / analytics.totalTrades) * 100
LongPercent(a) == Mul(Div(Num(a.longTrades), Num(a.totalTrades)), Num(100))

\* the detailed statistics: (analytics.shortTrades / analytics.totalTrades) * 100
ShortPercent(a) == Mul(Div(Num(a.shortTrades), Num(a.totalTrades)), Num(100))

\* no run of loadUserData is awaiting a call
NoLoadInFlight == \A r \in 1..Len(loads) : Ended(r)

(* C23: whenever the detailed statistics are rendered, totalTrades > 0 and *)
(* the long and short percentages are finite numbers; a user with sessions *)
(* but no trades is shown the 'No Trading Data' view.                      *)
C23_DetailedStatistics ==
  /\ View = "analytics" =>
       /\ analytics.totalTrades > 0
       /\ IsFinite(LongPercent(analytics))
       /\ IsFinite(ShortPercent(analytics))
  /\ (~loading /\ NoLoadInFlight /\ sessions # <<>> /\ allTrades = <<>>) =>
       View = "No Trading Data"

\* run r ends in this step
Ends(r) ==
  /\ loads[r].pc \in {"getSessions", "getTrades"}
  /\ loads'[r].pc \in {"loaded", "failed"}

\* run r ends in this step with a rejected call
Fails(r) ==
  /\ loads[r].pc \in {"getSessions", "getTrades"}
  /\ loads'[r].pc = "failed"

(* C24 as stated: every run of loadUserData that starts eventually sets    *)
(* loading to false, and when a call of the run rejects, analytics and     *)
(* allTrades have the values they had before the run started.              *)
C24_ValuesBeforeTheRun ==
  /\ \A r \in 1..MaxLoads : Started(r) ~> Ended(r)
  /\ [][\A r \in 1..Len(loads) :
          /\ Ends(r) => loading' = FALSE
          /\ Fails(r) => /\ analytics' = loads[r].before.analytics
                         /\ allTrades' = loads[r].before.allTrades]_vars

(* C24 amended: every run of loadUserData that starts eventually ends, and *)
(* the step that ends it sets loading to false; when a call of the run     *)
(* rejects, that step changes neither analytics nor allTrades.             *)
C24_LoadingReset ==
  /\ \A r \in 1..MaxLoads : Started(r) ~> Ended(r)
  /\ [][\A r \in 1..Len(loads) :
          /\ Ends(r) => loading' = FALSE
          /\ Fails(r) => UNCHANGED <<analytics, allTrades>>]_vars

\* a run has ended with a rejected getTrades call after another run had
\* loaded its data: loading is false and the loaded data is still shown
C24_Witness ==
  /\ \E r \in 1..Len(loads) : loads[r].pc = "failed" /\ loads[r].sessionsData # <<>>
  /\ \E r \in 1..Len(loads) : loads[r].pc = "loaded"
  /\ NoLoadInFlight
  /\ ~loading
  /\ analytics # Null

----------------------------------------------------------------------------
(* The chat interface: handleSendMessage and handleImageUpload.  chat      *)
(* holds the state of the component; chat.requests has one record per      *)
(* accepted send and per uploaded image, with the position of its          *)
(* asynchronous work.  A message records the request it belongs to.        *)

MaxChatRequests == 3

InputTexts == {"hello", "switch to demo", "  "}

\* text.trim()
Trim(text) == IF text = "  " THEN "" ELSE text

\* one of sessionSwitchPatterns matches the input
MatchesSessionSwitch(text) == text = "switch to demo"

Message(role, type, content, r) == [role |-> role, type |-> type, content |-> content, of |-> r]

InitChat ==
  /\ chat \in {ChatInitial(b) : b \in BOOLEAN}
  /\ user \in {NoUser, "u1"}
  /\ allTrades = <<>>
  /\ loading = TRUE
  /\ loads = <<>>
  /\ sessions = <<>>
  /\ trades = <<>>
  /\ pc = "idle"
  /\ analytics = Null
  /\ calls = <<>>
  /\ zone = ZoneInitial
  /\ gemini = Null
  /\ form = Null
  /\ market = Null

\* onChange of the input, which is disabled while isLoading
Type(text) ==
  /\ ~chat.isLoading
  /\ chat.inputMessage # text
  /\ chat' = [chat EXCEPT !.inputMessage = text]

\* the image button: setShowImageUpload(!showImageUpload)
ToggleImageUpload ==
  chat' = [chat EXCEPT !.showImageUpload = ~chat.showImageUpload]

\* handleSendMessage up to its first await: the guard, the user message,
\* setInputMessage(''), setIsLoading(true) and the call getTradingContext()
SendMessage ==
  /\ Trim(chat.inputMessage) # ""
  /\ user # NoUser
  /\ ~chat.isLoading
  /\ Len(chat.requests) < MaxChatRequests
  /\ LET r == Len(chat.requests) + 1
     IN chat' = [chat EXCEPT
                  !.messages = Append(@, Message("user", "text", "input", r)),
                  !.inputMessage = "",
                  !.isLoading = TRUE,
                  !.requests = Append(@, [kind |-> "send", pc |-> "context",
                                          input |-> Trim(chat.inputMessage)])]

\* getTradingContext() has returned (it catches every error): either the
\* session-switch notice is appended and finally runs, or getChatResponse
\* is called
ContextReturns(r) ==
  /\ chat.requests[r].kind = "send"
  /\ chat.requests[r].pc = "context"
  /\ chat' = IF MatchesSessionSwitch(chat.requests[r].input) /\ chat.onSessionSwitch
             THEN [chat EXCEPT
                    !.messages = Append(@, Message("assistant", "text", "session switch", r)),
                    !.isLoading = FALSE,
                    !.requests[r].pc = "done"]
             ELSE [chat EXCEPT !.requests[r].pc = "chat"]

\* getChatResponse has returned its string (it never throws): the reply is
\* appended and finally runs
ChatResponds(r) ==
  /\ chat.requests[r].kind = "send"
  /\ chat.requests[r].pc = "chat"
  /\ chat' = [chat EXCEPT
               !.messages = Append(@, Message("assistant", "text", "reply", r)),
               !.isLoading = FALSE,
               !.requests[r].pc = "done"]

\* handleImageUpload(file), which has no await: setIsLoading(true), the
\* user message, reader.onload is set and reader.readAsDataURL(file) starts
\* the read, and finally does setIsLoading(false), setShowImageUpload(false)
UploadImage ==
  /\ chat.showImageUpload
  /\ Len(chat.requests) < MaxChatRequests
  /\ LET r == Len(chat.requests) + 1
     IN chat' = [chat EXCEPT
                  !.messages = Append(@, Message("user", "image", "upload", r)),
                  !.isLoading = FALSE,
                  !.showImageUpload = FALSE,
                  !.requests = Append(@, [kind |-> "upload", pc |-> "reading", input |-> ""])]

\* reader.onload: the base64 data is taken and extractTradeDataFromImage
\* is called
ReaderLoads(r) ==
  /\ chat.requests[r].kind = "upload"
  /\ chat.requests[r].pc = "reading"
  /\ chat' = [chat EXCEPT !.requests[r].pc = "extracting"]

\* extractTradeDataFromImage resolves with the trade data: the analysis
\* message is appended
ExtractionResolves(r) ==
  /\ chat.requests[r].kind = "upload"
  /\ chat.requests[r].pc = "extracting"
  /\ chat' = [chat EXCEPT
               !.messages = Append(@, Message("assistant", "analysis", "analysis", r)),
               !.requests[r].pc = "done"]

\* extractTradeDataFromImage throws: the catch inside onload rethrows, and
\* the promise of the onload callback rejects with nobody handling it
ExtractionRejects(r) ==
  /\ chat.requests[r].kind = "upload"
  /\ chat.requests[r].pc = "extracting"
  /\ chat' = [chat EXCEPT !.requests[r].pc = "unhandled"]

NextChat ==
  /\ \/ \E text \in InputTexts : Type(text)
     \/ ToggleImageUpload
     \/ SendMessage
     \/ UploadImage
     \/ \E r \in 1..Len(chat.requests) : ContextReturns(r)
     \/ \E r \in 1..Len(chat.requests) : ChatResponds(r)
     \/ \E r \in 1..Len(chat.requests) : ReaderLoads(r)
     \/ \E r \in 1..Len(chat.requests) : ExtractionResolves(r)
     \/ \E r \in 1..Len(chat.requests) : ExtractionRejects(r)
  /\ UNCHANGED <<sessions, trades, pc, analytics, calls, pageVars, zone, gemini, form, market>>

SpecChat == InitChat /\ [][NextChat]_vars

\* the requests of a kind that are at one of the positions
RequestsAt(kind, pcs) ==
  {r \in 1..Len(chat.requests) : chat.requests[r].kind = kind /\ chat.requests[r].pc \in pcs}

\* the positions in messages of the messages of a role that belong to request r
MessagesOf(role, r) ==
  {i \in 1..Len(chat.messages) : chat.messages[i].role = role /\ chat.messages[i].of = r}

(* C25: at most one handleSendMessage request is in flight at a time, and, *)
(* under any interleaving with handleImageUpload, whenever isLoading is    *)
(* false every accepted send has its user message followed by exactly one  *)
(* assistant message.                                                      *)
C25_OneSendInFlight ==
  /\ Cardinality(RequestsAt("send", {"context", "chat"})) <= 1
  /\ ~chat.isLoading =>
       \A r \in RequestsAt("send", {"context", "chat", "done"}) :
         /\ Cardinality(MessagesOf("user", r)) = 1
         /\ Cardinality(MessagesOf("assistant", r)) = 1
         /\ \A i \in MessagesOf("user", r) : \A j \in MessagesOf("assistant", r) : i < j

(* C26: isLoading is true from the start of handleImageUpload until the    *)
(* extraction request has completed, and every uploaded image whose        *)
(* extraction has completed has exactly one assistant message: the         *)
(* analysis when the extraction succeeded, the error notice when           *)
(* extractTradeDataFromImage threw.                                        *)
C26_UploadLoading ==
  /\ RequestsAt("upload", {"reading", "extracting"}) # {} => chat.isLoading
  /\ \A r \in RequestsAt("upload", {"done"}) :
       /\ Cardinality(MessagesOf("assistant", r)) = 1
       /\ \A i \in MessagesOf("assistant", r) : chat.messages[i].content = "analysis"
  /\ \A r \in RequestsAt("upload", {"unhandled"}) :
       /\ Cardinality(MessagesOf("assistant", r)) = 1
       /\ \A i \in MessagesOf("assistant", r) : chat.messages[i].content = "error"

----------------------------------------------------------------------------
(* The image upload zone of the trade form: handleFile, which handleDrop,  *)
(* handlePaste and the file input call.  zone.runs has one record per call *)
(* of handleFile, with its file, the position of its asynchronous work and *)
(* the number of times it has called onDataExtracted.                      *)

MaxFiles == 3

\* 10 * 1024 * 1024
MaxFileSize == 10 * 1024 * 1024

Files ==
  {[name |-> "a.png", type |-> "image/png", size |-> 2048],
   [name |-> "b.jpg", type |-> "image/jpeg", size |-> MaxFileSize],
   [name |-> "big.png", type |-> "image/png", size |-> MaxFileSize + 1],
   [name |-> "notes.txt", type |-> "text/plain", size |-> 2048]}

\* file.type.startsWith('image/')
IsImage(file) == file.type \in {"image/png", "image/jpeg"}

\* the file passes the two validations of handleFile
Accepted(file) == IsImage(file) /\ ~(file.size > MaxFileSize)

InitZone ==
  /\ zone = ZoneInitial
  /\ chat = ChatInitial(FALSE)
  /\ gemini = Null
  /\ form = Null
  /\ market = Null
  /\ PageIdle
  /\ sessions = <<>>
  /\ trades = <<>>
  /\ pc = "idle"
  /\ analytics = Null
  /\ calls = <<>>

\* handleFile(file) up to its first await: the two validations, then
\* setFileName, setExtractionStatus('idle'), the read for the preview is
\* started, setIsProcessing(true) and convertFileToBase64(file) is called
HandleFile(file) ==
  /\ Len(zone.runs) < MaxFiles
  /\ zone' =
       IF ~IsImage(file) \/ file.size > MaxFileSize
       THEN [zone EXCEPT
              !.extractionStatus = "error",
              !.runs = Append(@, [file |-> file, pc |-> "rejected",
                                  previewPending |-> FALSE, delivered |-> 0])]
       ELSE [zone EXCEPT
              !.fileName = file.name,
              !.extractionStatus = "idle",
              !.isProcessing = TRUE,
              !.runs = Append(@, [file |-> file, pc |-> "converting",
                                  previewPending |-> TRUE, delivered |-> 0])]

\* reader.onload of the preview read: setPreview(e.target.result)
PreviewLoads(r) ==
  /\ zone.runs[r].previewPending
  /\ zone' = [zone EXCEPT !.preview = [dataUrl |-> zone.runs[r].file.name],
                          !.runs[r].previewPending = FALSE]

\* convertFileToBase64 resolves, and extractTradeDataFromImage is called
ConvertResolves(r) ==
  /\ zone.runs[r].pc = "converting"
  /\ zone' = [zone EXCEPT !.runs[r].pc = "extracting"]

\* an awaited promise of the run rejects: catch does
\* setExtractionStatus('error'), finally setIsProcessing(false)
ZoneRejected(r) ==
  zone' = [zone EXCEPT !.extractionStatus = "error",
                       !.isProcessing = FALSE,
                       !.runs[r].pc = "failed"]

\* convertFileToBase64 rejects (reader.onerror)
ConvertRejects(r) ==
  /\ zone.runs[r].pc = "converting"
  /\ ZoneRejected(r)

\* extractTradeDataFromImage resolves: setExtractionStatus('success'),
\* onDataExtracted(extractedData), and finally setIsProcessing(false)
ZoneExtractionResolves(r) ==
  /\ zone.runs[r].pc = "extracting"
  /\ zone' = [zone EXCEPT !.extractionStatus = "success",
                          !.isProcessing = FALSE,
                          !.runs[r].pc = "success",
                          !.runs[r].delivered = @ + 1]

\* extractTradeDataFromImage throws
ZoneExtractionRejects(r) ==
  /\ zone.runs[r].pc = "extracting"
  /\ ZoneRejected(r)

\* clearUpload
ClearUpload ==
  /\ zone.preview # Null
  /\ zone' = [zone EXCEPT !.preview = Null, !.fileName = "", !.extractionStatus = "idle"]

NextZone ==
  /\ \/ \E file \in Files : HandleFile(file)
     \/ \E r \in 1..Len(zone.runs) : PreviewLoads(r)
     \/ \E r \in 1..Len(zone.runs) : ConvertResolves(r)
     \/ \E r \in 1..Len(zone.runs) : ConvertRejects(r)
     \/ \E r \in 1..Len(zone.runs) : ZoneExtractionResolves(r)
     \/ \E r \in 1..Len(zone.runs) : ZoneExtractionRejects(r)
     \/ ClearUpload
  /\ UNCHANGED <<sessions, trades, pc, analytics, calls, pageVars, chat, gemini, form, market>>

SpecZone == InitZone /\ [][NextZone]_vars

\* a call of handleFile is made in this step
FileHandled == Len(zone'.runs) = Len(zone.runs) + 1

\* the file of the call of handleFile made in this step
HandledFile == zone'.runs[Len(zone'.runs)].file

\* the extraction of run r resolves in this step
Resolves(r) == zone.runs[r].pc = "extracting" /\ zone'.runs[r].pc = "success"

(* C27, its parts about one call of handleFile: onDataExtracted is called  *)
(* exactly once, and extractionStatus set to 'success', if and only if the *)
(* file is an image of at most 10 MB and the extraction resolves; a        *)
(* rejected file sets extractionStatus to 'error' without sending an       *)
(* extraction request and without changing fileName or preview.            *)
C27_OneCall ==
  /\ [](\A r \in 1..Len(zone.runs) :
          /\ zone.runs[r].delivered = IF zone.runs[r].pc = "success" THEN 1 ELSE 0
          /\ zone.runs[r].pc \in {"extracting", "success"} => Accepted(zone.runs[r].file)
          /\ ~Accepted(zone.runs[r].file) => zone.runs[r].pc = "rejected")
  /\ [][/\ \A r \in 1..Len(zone.runs) :
             /\ Resolves(r) <=> zone'.runs[r].delivered = zone.runs[r].delivered + 1
             /\ Resolves(r) => zone'.extractionStatus = "success"
        /\ (FileHandled /\ ~Accepted(HandledFile)) =>
             /\ zone'.extractionStatus = "error"
             /\ zone'.fileName = zone.fileName
             /\ zone'.preview = zone.preview
             /\ zone'.isProcessing = zone.isProcessing]_vars

(* C27: the above, and isProcessing is true whenever an extraction started *)
(* by handleFile is in flight, also when a second file is dropped or       *)
(* pasted before the first extraction has finished.                        *)
C27_HandleFile ==
  /\ C27_OneCall
  /\ [](\A r \in 1..Len(zone.runs) :
          zone.runs[r].pc \in {"converting", "extracting"} => zone.isProcessing)

----------------------------------------------------------------------------
(* geminiService: extractTradeDataFromImage and getChatResponse, as        *)
(* functions of what fetch and the response deliver.  A JavaScript value   *)
(* is a record with its type t; the result of a call is a value returned   *)
(* or an error thrown.                                                     *)

Undefined == [t |-> "undefined"]

JsNull == [t |-> "null"]

JsNumber(n) == [t |-> "number", v |-> n]

JsString(str) == [t |-> "string", v |-> str]

\* an object with the properties of the function props
JsObject(props) == [t |-> "object", props |-> props]

\* the truthiness of a value: undefined, null, 0 and '' are falsy
Truthy(x) ==
  IF x.t \in {"undefined", "null"} THEN FALSE
  ELSE IF x.t = "number" THEN x.v # 0
  ELSE IF x.t = "string" THEN x.v # ""
  ELSE TRUE

\* x.k for a value x that is neither null nor undefined
Get(x, k) ==
  IF x.t = "object" /\ k \in DOMAIN x.props THEN x.props[k] ELSE Undefined

Returns(x) == [kind |-> "return", value |-> x]

Throws(message) == [kind |-> "throw", message |-> message]

GenericExtractionError ==
  "Failed to extract trade data from image. Please ensure the image shows clear trading information."

EmptyReplyFallback == "I apologize, but I cannot process your request right now."

ChatErrorFallback ==
  "I apologize, but I cannot process your request right now. Please try again later."

\* a trade object with the three fields the validation reads
TradeData(symbol, type, openPrice) ==
  JsObject([k \in {"symbol", "type", "openPrice"} |->
             IF k = "symbol" THEN symbol ELSE IF k = "type" THEN type ELSE openPrice])

\* the texts a candidate may carry
Texts ==
  {"Sorry, I cannot read this image.",
   "null",
   "123",
   "{}",
   "{\"symbol\":\"XAUUSD\",\"type\":\"Buy\",\"openPrice\":1950}",
   "{\"symbol\":\"EURUSD\",\"type\":\"Sell\",\"openPrice\":1}",
   "{\"symbol\":\"\",\"type\":\"Buy\",\"openPrice\":1950}",
   "{\"type\":\"Buy\",\"openPrice\":1950}",
   "{\"symbol\":\"XAUUSD\",\"type\":\"\",\"openPrice\":1950}",
   "{\"symbol\":\"XAUUSD\",\"type\":\"Sell\",\"openPrice\":0}",
   "{\"symbol\":\"XAUUSD\",\"type\":\"Sell\",\"openPrice\":null}"}

\* JSON.parse(text), on the texts above: the value, or a SyntaxError
JSONParse(text) ==
  IF text = "null" THEN Returns(JsNull)
  ELSE IF text = "123" THEN Returns(JsNumber(123))
  ELSE IF text = "{}" THEN Returns(JsObject(<<>>))
  ELSE IF text = "{\"symbol\":\"XAUUSD\",\"type\":\"Buy\",\"openPrice\":1950}"
    THEN Returns(TradeData(JsString("XAUUSD"), JsString("Buy"), JsNumber(1950)))
  ELSE IF text = "{\"symbol\":\"EURUSD\",\"type\":\"Sell\",\"openPrice\":1}"
    THEN Returns(TradeData(JsString("EURUSD"), JsString("Sell"), JsNumber(1)))
  ELSE IF text = "{\"symbol\":\"\",\"type\":\"Buy\",\"openPrice\":1950}"
    THEN Returns(TradeData(JsString(""), JsString("Buy"), JsNumber(1950)))
  ELSE IF text = "{\"type\":\"Buy\",\"openPrice\":1950}"
    THEN Returns(JsObject([k \in {"type", "openPrice"} |->
                           IF k = "type" THEN JsString("Buy") ELSE JsNumber(1950)]))
  ELSE IF text = "{\"symbol\":\"XAUUSD\",\"type\":\"\",\"openPrice\":1950}"
    THEN Returns(TradeData(JsString("XAUUSD"), JsString(""), JsNumber(1950)))
  ELSE IF text = "{\"symbol\":\"XAUUSD\",\"type\":\"Sell\",\"openPrice\":0}"
    THEN Returns(TradeData(JsString("XAUUSD"), JsString("Sell"), JsNumber(0)))
  ELSE IF text = "{\"symbol\":\"XAUUSD\",\"type\":\"Sell\",\"openPrice\":null}"
    THEN Returns(TradeData(JsString("XAUUSD"), JsString("Sell"), JsNull))
  ELSE Throws("SyntaxError")

\* what response.json() delivers: a rejection for a body that is not JSON,
\* null, an object without candidates, or an object whose first candidate
\* has a first part with the text
Bodies ==
  {[json |-> "rejects"], [json |-> "null"], [json |-> "no candidates"]}
    \cup {[json |-> "candidates", text |-> text] : text \in Texts \cup {""}}

\* fetch rejects, or resolves with a response of a status
Fetches == {[fetch |-> "rejects"]} \cup {[fetch |-> "resolves", status |-> st] : st \in {200, 404, 500}}

Environments == {[response |-> f, body |-> b] : f \in Fetches, b \in Bodies}

\* response.ok
Ok(response) == response.status \in 200..299

\* data.candidates?.[0]?.content?.parts?.[0]?.text, for data that is not null
CandidateText(body) ==
  IF body.json = "candidates" THEN JsString(body.text) ELSE Undefined

\* variant: the catch block rethrows the error it caught
ExtractCatchRethrow(error) == error

\* catch (error) { ...; throw new Error('Failed to extract trade data ...') }
ExtractCatch(error) == Throws(GenericExtractionError)

\* the validation of the required fields, and the return; reading a
\* property of null is a TypeError
Validated(extractedData) ==
  IF extractedData.t \in {"null", "undefined"} THEN Throws("TypeError")
  ELSE IF \/ ~Truthy(Get(extractedData, "symbol"))
          \/ ~Truthy(Get(extractedData, "type"))
          \/ ~Truthy(Get(extractedData, "openPrice"))
    THEN Throws("Missing required trade data in extraction")
  ELSE Returns(extractedData)

\* the try block of extractTradeDataFromImage
ExtractTry(env) ==
  IF env.response.fetch = "rejects" THEN Throws("TypeError: Failed to fetch")
  ELSE IF ~Ok(env.response) THEN Throws("Gemini API error")
  ELSE IF env.body.json = "rejects" THEN Throws("SyntaxError")
  ELSE IF env.body.json = "null" THEN Throws("TypeError")
  ELSE LET extractedText == CandidateText(env.body)
       IN IF ~Truthy(extractedText) THEN Throws("No response from Gemini API")
          ELSE LET parsed == JSONParse(extractedText.v)
               IN IF parsed.kind = "throw" THEN parsed ELSE Validated(parsed.value)

extractTradeDataFromImage(env) ==
  LET result == ExtractTry(env)
  IN IF result.kind = "throw" THEN ExtractCatch(result) ELSE result

\* the try block of getChatResponse
ChatTry(env) ==
  IF env.response.fetch = "rejects" THEN Throws("TypeError: Failed to fetch")
  ELSE IF ~Ok(env.response) THEN Throws("Gemini API error")
  ELSE IF env.body.json = "rejects" THEN Throws("SyntaxError")
  ELSE IF env.body.json = "null" THEN Throws("TypeError")
  ELSE LET text == CandidateText(env.body)
       IN IF Truthy(text) THEN Returns(text.v) ELSE Returns(EmptyReplyFallback)

\* catch (error) { ...; return 'I apologize, ... Please try again later.' }
ChatCatch(error) == Returns(ChatErrorFallback)

getChatResponse(env) ==
  LET result == ChatTry(env)
  IN IF result.kind = "throw" THEN ChatCatch(result) ELSE result

InitGemini ==
  /\ gemini \in {[call |-> c, env |-> env, pc |-> "called", result |-> Null] :
                   c \in {"extractTradeDataFromImage", "getChatResponse"},
                   env \in Environments}
  /\ chat = ChatInitial(FALSE)
  /\ zone = ZoneInitial
  /\ form = Null
  /\ market = Null
  /\ PageIdle
  /\ sessions = <<>>
  /\ trades = <<>>
  /\ pc = "idle"
  /\ analytics = Null
  /\ calls = <<>>

\* the promise of extractTradeDataFromImage settles
ExtractSettles ==
  /\ gemini.pc = "called"
  /\ gemini.call = "extractTradeDataFromImage"
  /\ gemini' = [gemini EXCEPT !.pc = "settled",
                              !.result = extractTradeDataFromImage(gemini.env)]

\* the promise of getChatResponse settles
ChatSettles ==
  /\ gemini.pc = "called"
  /\ gemini.call = "getChatResponse"
  /\ gemini' = [gemini EXCEPT !.pc = "settled", !.result = getChatResponse(gemini.env)]

NextGemini ==
  /\ \/ ExtractSettles
     \/ ChatSettles
  /\ UNCHANGED <<sessions, trades, pc, analytics, calls, pageVars, chat, zone, form, market>>

SpecGemini == InitGemini /\ [][NextGemini]_vars

\* the failures the claim names, in terms of what the service was given
NonOkStatus == gemini.env.response.fetch = "resolves" /\ gemini.env.response.status \notin 200..299

Delivered == gemini.env.response.fetch = "resolves" /\ gemini.env.response.status \in 200..299

MissingCandidateText ==
  Delivered /\ (gemini.env.body.json = "no candidates" \/
                (gemini.env.body.json = "candidates" /\ gemini.env.body.text = ""))

HasText == Delivered /\ gemini.env.body.json = "candidates" /\ gemini.env.body.text # ""

\* the texts that are JSON
JsonTexts == Texts \ {"Sorry, I cannot read this image."}

UnparsableJson == HasText /\ gemini.env.body.text \notin JsonTexts

\* the texts that are JSON objects with a non-empty symbol, a non-empty type
\* and a non-zero openPrice
CompleteTexts ==
  {"{\"symbol\":\"XAUUSD\",\"type\":\"Buy\",\"openPrice\":1950}",
   "{\"symbol\":\"EURUSD\",\"type\":\"Sell\",\"openPrice\":1}"}

MissingRequiredField ==
  HasText /\ gemini.env.body.text \in JsonTexts \ CompleteTexts

Settled(call) == gemini.pc = "settled" /\ gemini.call = call

(* C28: extractTradeDataFromImage either returns parsed data whose symbol, *)
(* type and openPrice are all truthy, or throws the one generic error; a   *)
(* non-OK status, a missing candidate text, unparsable JSON and a missing  *)
(* required field all end in that error.  getChatResponse never throws,    *)
(* and returns a fallback string on every failure.                         *)
C28_ExtractOrGenericError ==
  /\ Settled("extractTradeDataFromImage") =>
       /\ \/ /\ gemini.result.kind = "return"
             /\ gemini.result.value.t = "object"
             /\ \A k \in {"symbol", "type", "openPrice"} :
                  /\ k \in DOMAIN gemini.result.value.props
                  /\ \/ /\ gemini.result.value.props[k].t = "string"
                        /\ gemini.result.value.props[k].v # ""
                     \/ /\ gemini.result.value.props[k].t = "number"
                        /\ gemini.result.value.props[k].v # 0
             /\ HasText /\ gemini.env.body.text \in CompleteTexts
          \/ gemini.result = [kind |-> "throw", message |-> GenericExtractionError]
       /\ (NonOkStatus \/ MissingCandidateText \/ UnparsableJson \/ MissingRequiredField) =>
            gemini.result = [kind |-> "throw", message |-> GenericExtractionError]
  /\ Settled("getChatResponse") =>
       /\ gemini.result.kind = "return"
       /\ (HasText => gemini.result.value = gemini.env.body.text)
       /\ (~HasText => gemini.result.value \in {EmptyReplyFallback, ChatErrorFallback})

\* a response of status 200 whose text is JSON with openPrice 0 has been
\* refused with the generic error
C28_Witness ==
  /\ Settled("extractTradeDataFromImage")
  /\ gemini.env.response.fetch = "resolves" /\ gemini.env.response.status = 200
  /\ gemini.env.body.json = "candidates"
  /\ gemini.env.body.text = "{\"symbol\":\"XAUUSD\",\"type\":\"Sell\",\"openPrice\":0}"
  /\ gemini.result.kind = "throw"

\* complete trade data has been returned
C28_WitnessReturn ==
  /\ Settled("extractTradeDataFromImage")
  /\ gemini.result.kind = "return"
  /\ gemini.result.value.props["symbol"].v = "XAUUSD"

\* getChatResponse has returned its fallback for a response of status 500
C28_WitnessChat ==
  /\ Settled("getChatResponse")
  /\ NonOkStatus
  /\ gemini.result = [kind |-> "return", value |-> ChatErrorFallback]

----------------------------------------------------------------------------
(* EnhancedTradeForm: the form fields, handleSubmit and clearForm.          *)
(* form.call is the call of onAddTrade in flight: the trade passed to it;    *)
(* form.notice is the latest toast.                                         *)

\* the state of lines 17-33 after clearForm, which is also the initial state
ClearedFields ==
  [symbol |-> "", type |-> "", volumeLot |-> "", openPrice |-> "", closePrice |-> "",
   tp |-> "", sl |-> "", position |-> "", openTime |-> "", closeTime |-> "",
   reason |-> "Other", pnlUsd |-> "", comments |-> "", extractedData |-> JsNull]

FormInitial == [fields |-> ClearedFields, loading |-> FALSE, notice |-> "", call |-> Null]

\* what the inputs of the required fields can hold
FieldValues ==
  [symbol |-> {"", "XAUUSD"},
   type |-> {"", "Buy", "Sell"},
   volumeLot |-> {"", "0", "2"},
   openPrice |-> {"", "0.5"},
   pnlUsd |-> {"", "-3"}]

\* Number(text) for the texts of the number inputs
Number(text) ==
  CASE text = "" -> Num(0)
    [] text = "0" -> Num(0)
    [] text = "2" -> Num(2)
    [] text = "10" -> Num(10)
    [] text = "0.5" -> Rat(1, 2)
    [] text = "-3" -> Num(-3)
    [] text = "5" -> Num(5)

\* x?.toString() || '' for a number x or null
ToStringOrEmpty(x) ==
  IF x.t = "null" THEN ""
  ELSE CASE x.v = Num(0) -> "0"
         [] x.v = Num(2) -> "2"
         [] x.v = Num(10) -> "10"
         [] x.v = Rat(1, 2) -> "0.5"
         [] x.v = Num(-3) -> "-3"
         [] x.v = Num(5) -> "5"

\* x || fallback for a string x or null
StringOr(x, fallback) == IF Truthy(x) THEN x.v ELSE fallback

\* the result of an extraction that the upload zone hands over
ExtractedData ==
  {[symbol |-> JsString("XAUUSD"), type |-> JsString("Sell"),
    volumeLot |-> JsNumber(Num(0)), openPrice |-> JsNumber(Rat(1, 2)),
    closePrice |-> JsNull, tp |-> JsNull, sl |-> JsNull,
    position |-> JsString("Open"), openTime |-> JsString("2024-01-03 09:00"),
    closeTime |-> JsNull, reason |-> JsString(""),
    pnlUsd |-> JsNumber(Num(-3))]}

\* JSON.stringify(data, null, 2), abridged to the fields that tell the data apart
Stringify(data) ==
  "{\n  \"symbol\": \"" \o data.symbol.v \o "\",\n  \"type\": \"" \o data.type.v \o "\"\n}"

\* a truthy number: neither 0 nor NaN
TruthyNumber(x) == ~IsNaN(x) /\ x.n # 0

calculatedMargin(fields) ==
  IF fields.volumeLot # "" /\ fields.openPrice # ""
  THEN Mul(Number(fields.volumeLot), Number(fields.openPrice))
  ELSE Num(0)

calculatedROI(fields) ==
  IF TruthyNumber(calculatedMargin(fields)) /\ fields.pnlUsd # ""
  THEN Mul(Div(Number(fields.pnlUsd), calculatedMargin(fields)), Num(100))
  ELSE Num(0)

\* the trade that handleSubmit builds
TradeOf(fields) ==
  [session_id |-> "sessionId",
   margin |-> calculatedMargin(fields),
   roi |-> calculatedROI(fields),
   entry_side |-> IF fields.type = "Buy" THEN "Long" ELSE "Short",
   profit_loss |-> Number(fields.pnlUsd),
   comments |-> IF Trim(fields.comments) = "" THEN Undefined ELSE JsString(Trim(fields.comments))]

\* !symbol || !type || !volumeLot || !openPrice || !pnlUsd
RequiredMissing(fields) ==
  \/ fields.symbol = ""
  \/ fields.type = ""
  \/ fields.volumeLot = ""
  \/ fields.openPrice = ""
  \/ fields.pnlUsd = ""

InitForm ==
  /\ form = FormInitial
  /\ market = Null
  /\ chat = ChatInitial(FALSE)
  /\ zone = ZoneInitial
  /\ gemini = Null
  /\ PageIdle
  /\ sessions = <<>>
  /\ trades = <<>>
  /\ pc = "idle"
  /\ analytics = Null
  /\ calls = <<>>

\* onChange of the input of a required field
SetField(name, value) ==
  /\ form.fields[name] # value
  /\ form' = [form EXCEPT !.fields[name] = value]

handleDataExtracted(data) ==
  /\ form' = [form EXCEPT !.notice = "Form auto-populated with extracted data!", !.fields =
       [symbol |-> StringOr(data.symbol, ""),
        type |-> StringOr(data.type, ""),
        volumeLot |-> ToStringOrEmpty(data.volumeLot),
        openPrice |-> ToStringOrEmpty(data.openPrice),
        closePrice |-> ToStringOrEmpty(data.closePrice),
        tp |-> ToStringOrEmpty(data.tp),
        sl |-> ToStringOrEmpty(data.sl),
        position |-> StringOr(data.position, ""),
        openTime |-> StringOr(data.openTime, ""),
        closeTime |-> StringOr(data.closeTime, ""),
        reason |-> StringOr(data.reason, "Other"),
        pnlUsd |-> ToStringOrEmpty(data.pnlUsd),
        comments |-> "Auto-extracted from screenshot:\n" \o Stringify(data),
        extractedData |-> JsObject(data)]]

\* the Clear button
clearForm ==
  /\ form.fields # ClearedFields
  /\ form' = [form EXCEPT !.fields = ClearedFields]

\* handleSubmit with a required field missing: the notice, and nothing else
SubmitIncomplete ==
  /\ ~form.loading
  /\ RequiredMissing(form.fields)
  /\ form.notice # "Please fill in all required fields"
  /\ form' = [form EXCEPT !.notice = "Please fill in all required fields"]

\* handleSubmit up to its await; the submit button is disabled while loading
Submit ==
  /\ ~form.loading
  /\ ~RequiredMissing(form.fields)
  /\ form' = [form EXCEPT !.loading = TRUE,
                          !.call = TradeOf(form.fields)]

Pending == form.call # Null

\* variant: the fields are reset in the catch block as well
AddTradeRejectedAndCleared(f) ==
  [f EXCEPT !.fields = ClearedFields, !.notice = "Failed to add trade", !.loading = FALSE,
            !.call = Null]

\* the catch block and the finally block
AddTradeRejected(f) ==
  [f EXCEPT !.notice = "Failed to add trade", !.loading = FALSE, !.call = Null]

\* onAddTrade resolves: clearForm, the notice, and the finally block
AddTradeResolves ==
  /\ Pending
  /\ form' = [form EXCEPT !.fields = ClearedFields, !.notice = "Trade added successfully",
                          !.loading = FALSE, !.call = Null]

\* onAddTrade rejects or throws
AddTradeRejects ==
  /\ Pending
  /\ form' = AddTradeRejected(form)

NextForm ==
  /\ \/ \E name \in DOMAIN FieldValues : \E value \in FieldValues[name] : SetField(name, value)
     \/ \E data \in ExtractedData : handleDataExtracted(data)
     \/ clearForm
     \/ SubmitIncomplete
     \/ Submit
     \/ AddTradeResolves
     \/ AddTradeRejects
  /\ UNCHANGED <<sessions, trades, pc, analytics, calls, pageVars, chat, zone, gemini, market>>

SpecForm == InitForm /\ [][NextForm]_vars

(* C29: handleSubmit calls onAddTrade only when symbol, type, volumeLot,    *)
(* openPrice and pnlUsd are all non-empty, and with one of them missing it  *)
(* changes neither a field nor loading; the submitted trade has entry_side  *)
(* 'Long' exactly when type is 'Buy' and 'Short' otherwise, and roi =       *)
(* pnlUsd / (volumeLot * openPrice) * 100, or 0 when the margin is 0; the   *)
(* fields are cleared when onAddTrade resolves and kept when it rejects,    *)
(* and loading is false after either outcome.                               *)
C29_HandleSubmit ==
  [][/\ (form.call = Null /\ form'.call # Null) =>
          /\ \A name \in {"symbol", "type", "volumeLot", "openPrice", "pnlUsd"} :
               form.fields[name] # ""
          /\ form'.call.entry_side \in {"Long", "Short"}
          /\ form'.call.entry_side = "Long" <=> form.fields.type = "Buy"
          /\ LET margin == Mul(Number(form.fields.volumeLot), Number(form.fields.openPrice))
             IN form'.call.roi =
                  IF margin = Num(0) THEN Num(0)
                  ELSE Mul(Div(Number(form.fields.pnlUsd), margin), Num(100))
          /\ form'.fields = form.fields
     /\ (form'.call # form.call) => (form.call = Null \/ form'.call = Null)
     /\ (form'.notice # form.notice /\ form'.notice = "Please fill in all required fields") =>
          /\ RequiredMissing(form.fields)
          /\ form'.fields = form.fields
          /\ form'.loading = form.loading
          /\ form'.call = form.call
     /\ (RequiredMissing(form.fields) /\ form.call = Null) => form'.call = Null
     /\ (form.call # Null /\ form'.call = Null) =>
          /\ ~form'.loading
          /\ form'.notice \in {"Trade added successfully", "Failed to add trade"}
          /\ form'.notice = "Trade added successfully" => form'.fields = ClearedFields
          /\ form'.notice = "Failed to add trade" => form'.fields = form.fields
     /\ (form'.fields # form.fields /\ form'.fields = ClearedFields /\ form.call = form'.call) =>
          form'.notice = form.notice
  ]_vars

\* a trade was submitted, the fields were edited and onAddTrade rejected: the
\* edited fields are still there and loading is false
C29_Witness ==
  /\ form # Null
  /\ form.notice = "Failed to add trade"
  /\ form.call = Null
  /\ ~form.loading
  /\ ~RequiredMissing(form.fields)
  /\ form.fields.type = "Buy"

\* a trade of margin 0 and roi 0 is in flight
C29_WitnessMarginZero ==
  /\ form # Null
  /\ form.call # Null
  /\ form.loading
  /\ form.call.margin = Num(0)
  /\ form.call.roi = Num(0)
  /\ form.call.entry_side = "Short"

\* a trade of roi -300 % is in flight
C29_WitnessRoi ==
  /\ form # Null
  /\ form.call # Null
  /\ form.call.roi = Num(-300)
  /\ form.call.entry_side = "Long"

----------------------------------------------------------------------------
(* MarketOverviewTab: fetchMarketData, started on mount, by the 30-second    *)
(* interval and by the refresh button.  A run is the position of one call   *)
(* of fetchMarketData and the data it has awaited so far.  new Date() is a  *)
(* clock read when a run completes: the number of runs completed.           *)

MaxFetches == 3

MarketInitial == [marketData |-> <<>>, loading |-> TRUE, lastUpdate |-> 0, runs |-> <<>>]

JsArray(items) == [t |-> "array", items |-> items]

\* x?.k
Optional(x, k) == IF x.t \in {"undefined", "null"} THEN Undefined ELSE Get(x, k)

\* x[0] for a value x that is neither null nor undefined
First(x) == IF x.t = "array" /\ Len(x.items) > 0 THEN x.items[1] ELSE Undefined

\* x || fallback for a number x or undefined
NumberOr(x, fallback) == IF Truthy(x) THEN x.v ELSE fallback

\* what await btcResponse.json() can give
BtcData ==
  {JsObject([bitcoin |-> JsObject([usd |-> JsNumber(43000), usd_24h_change |-> JsNumber(2)])]),
   JsObject([status |-> JsObject([error_code |-> JsNumber(429)])]),
   JsNull}

\* what await ethResponse.json() can give
EthData ==
  {JsObject([ethereum |-> JsObject([usd |-> JsNumber(2600), usd_24h_change |-> JsNumber(-1)])])}

\* what await goldResponse.json() can give
GoldData == {JsArray(<<JsObject([price |-> JsNumber(2050)])>>), JsArray(<<>>)}

\* Math.random() * 2 - 1
RandomChanges == {Rat(-1, 2), Rat(1, 2)}

MarketEntry(symbol, name, price, change, changePercent, lastUpdated) ==
  [symbol |-> symbol, name |-> name, price |-> price, change |-> change,
   changePercent |-> changePercent, lastUpdated |-> lastUpdated]

\* the runs of fetchMarketData that have completed
Completed(m) == {r \in 1..Len(m.runs) : m.runs[r].pc = "done"}

\* new Date() at the completion of a run
Now(m) == Cardinality(Completed(m)) + 1

\* formattedData needs no property of null
Formattable(btcData, ethData, goldData) ==
  btcData.t # "null" /\ ethData.t # "null" /\ goldData.t # "null"

\* formattedData of lines 48-73
FormattedData(btcData, ethData, goldData, random, now) ==
  <<MarketEntry("BTC/USD", "Bitcoin",
                Num(NumberOr(Optional(Get(btcData, "bitcoin"), "usd"), 0)), Num(0),
                Num(NumberOr(Optional(Get(btcData, "bitcoin"), "usd_24h_change"), 0)), now),
    MarketEntry("ETH/USD", "Ethereum",
                Num(NumberOr(Optional(Get(ethData, "ethereum"), "usd"), 0)), Num(0),
                Num(NumberOr(Optional(Get(ethData, "ethereum"), "usd_24h_change"), 0)), now),
    MarketEntry("XAU/USD", "Gold",
                Num(NumberOr(Optional(First(goldData), "price"), 2000)), Num(0),
                random, now)>>

\* the fallback data of lines 80-105
FallbackData(now) ==
  <<MarketEntry("BTC/USD", "Bitcoin", Num(43250), Num(1250), Rat(298, 100), now),
    MarketEntry("ETH/USD", "Ethereum", Num(2650), Num(-45), Rat(-167, 100), now),
    MarketEntry("XAU/USD", "Gold", Rat(20455, 10), Rat(123, 10), Rat(61, 100), now)>>

InitMarket ==
  /\ market = MarketInitial
  /\ form = Null
  /\ chat = ChatInitial(FALSE)
  /\ zone = ZoneInitial
  /\ gemini = Null
  /\ PageIdle
  /\ sessions = <<>>
  /\ trades = <<>>
  /\ pc = "idle"
  /\ analytics = Null
  /\ calls = <<>>

\* fetchMarketData up to its first await
FetchStarted(m, trigger) ==
  [m EXCEPT !.loading = TRUE,
            !.runs = Append(@, [trigger |-> trigger, pc |-> "btc", btcData |-> Null,
                                ethData |-> Null, outcome |-> "pending", at |-> 0])]

\* the effect on mount
Mount ==
  /\ market.runs = <<>>
  /\ market' = FetchStarted(market, "mount")

\* the interval fires
TimerFires ==
  /\ market.runs # <<>>
  /\ Len(market.runs) < MaxFetches
  /\ market' = FetchStarted(market, "timer")

\* the refresh button, disabled while loading
ManualRefresh ==
  /\ market.runs # <<>>
  /\ ~market.loading
  /\ Len(market.runs) < MaxFetches
  /\ market' = FetchStarted(market, "manual")

At(r, position) == r \in 1..Len(market.runs) /\ market.runs[r].pc = position

BtcResolves(r, btcData) ==
  /\ At(r, "btc")
  /\ market' = [market EXCEPT !.runs[r].pc = "eth", !.runs[r].btcData = btcData]

EthResolves(r, ethData) ==
  /\ At(r, "eth")
  /\ market' = [market EXCEPT !.runs[r].pc = "gold", !.runs[r].ethData = ethData]

\* the locals of a completed run are gone
Finished(run, outcome, now) ==
  [run EXCEPT !.pc = "done", !.btcData = Null, !.ethData = Null, !.outcome = outcome, !.at = now]

\* variant: the catch block only logs
FailedWithoutFallback(m, r) ==
  [m EXCEPT !.loading = FALSE, !.runs[r] = Finished(@, "failed", Now(m))]

\* the catch block and the finally block
Failed(m, r) ==
  [m EXCEPT !.marketData = FallbackData(Now(m)),
            !.loading = FALSE,
            !.runs[r] = Finished(@, "failed", Now(m))]

\* the rest of the try block, and the finally block
Succeeded(m, r, goldData, random) ==
  [m EXCEPT !.marketData = FormattedData(m.runs[r].btcData, m.runs[r].ethData, goldData,
                                         random, Now(m)),
            !.lastUpdate = Now(m),
            !.loading = FALSE,
            !.runs[r] = Finished(@, "succeeded", Now(m))]

GoldResolves(r, goldData, random) ==
  /\ At(r, "gold")
  /\ market' = IF Formattable(market.runs[r].btcData, market.runs[r].ethData, goldData)
               THEN Succeeded(market, r, goldData, random)
               ELSE Failed(market, r)

\* a fetch or a json() of the run rejects
FetchRejects(r) ==
  /\ r \in 1..Len(market.runs)
  /\ market.runs[r].pc # "done"
  /\ market' = Failed(market, r)

NextMarket ==
  /\ \/ Mount
     \/ TimerFires
     \/ ManualRefresh
     \/ \E r \in 1..MaxFetches : \E btcData \in BtcData : BtcResolves(r, btcData)
     \/ \E r \in 1..MaxFetches : \E ethData \in EthData : EthResolves(r, ethData)
     \/ \E r \in 1..MaxFetches : \E goldData \in GoldData : \E random \in RandomChanges :
          GoldResolves(r, goldData, random)
     \/ \E r \in 1..MaxFetches : FetchRejects(r)
  /\ UNCHANGED <<sessions, trades, pc, analytics, calls, pageVars, chat, zone, gemini, form>>

SpecMarket == InitMarket /\ [][NextMarket]_vars

\* run r completes in this step
Completes(r) ==
  /\ r \in 1..Len(market.runs)
  /\ market.runs[r].pc # "done"
  /\ market'.runs[r].pc = "done"

(* C30: after every completed fetchMarketData run, successful or failed,    *)
(* marketData holds exactly three entries in the order BTC/USD, ETH/USD,    *)
(* XAU/USD and loading is false; lastUpdate advances only on a successful   *)
(* run; marketData changes only when a run completes and is then the data   *)
(* of that run, so under overlap it is that of the run that completed last. *)
C30_LastCompletedWins ==
  [][/\ \A r \in 1..MaxFetches : Completes(r) =>
          /\ Len(market'.marketData) = 3
          /\ market'.marketData[1].symbol = "BTC/USD"
          /\ market'.marketData[2].symbol = "ETH/USD"
          /\ market'.marketData[3].symbol = "XAU/USD"
          /\ ~market'.loading
          /\ \A i \in 1..3 : market'.marketData[i].lastUpdated = market'.runs[r].at
          /\ \A q \in Completed(market) : market.runs[q].at < market'.runs[r].at
          /\ market'.runs[r].outcome = "succeeded" =>
               /\ market.runs[r].pc = "gold"
               /\ market.runs[r].btcData.t = "object"
               /\ market'.marketData[1].price =
                    IF "bitcoin" \in DOMAIN market.runs[r].btcData.props
                    THEN Num(market.runs[r].btcData.props.bitcoin.props.usd.v) ELSE Num(0)
               /\ market'.marketData[2].price = Num(2600)
               /\ market'.marketData[3].price \in {Num(2050), Num(2000)}
          /\ market'.runs[r].outcome = "failed" =>
               /\ market'.marketData[1].price = Num(43250)
               /\ market'.marketData[2].price = Num(2650)
               /\ market'.marketData[3].price = Rat(4091, 2)
               /\ market'.lastUpdate = market.lastUpdate
     /\ market'.marketData # market.marketData => \E r \in 1..MaxFetches : Completes(r)
     /\ market'.lastUpdate # market.lastUpdate =>
          /\ market'.lastUpdate > market.lastUpdate
          /\ \E r \in 1..MaxFetches : Completes(r) /\ market'.runs[r].outcome = "succeeded"
  ]_vars

\* a timer-triggered fetch started after a manual refresh and failed before
\* it; the refresh then succeeded and its data is displayed
C30_Witness ==
  /\ market # Null
  /\ Len(market.runs) = 3
  /\ market.runs[2].trigger = "manual" /\ market.runs[2].outcome = "succeeded"
  /\ market.runs[3].trigger = "timer" /\ market.runs[3].outcome = "failed"
  /\ market.runs[2].at > market.runs[3].at
  /\ market.marketData[1].price = Num(43000)
  /\ market.marketData[1].lastUpdated = market.runs[2].at
  /\ ~market.loading

============================================================================
